---- MODULE Spec2Model ----
(***************************************************************************)
(* Message-processing API: MessageService, MessageRepository, the          *)
(* validators, the endpoints of MessageController and the broadcast.       *)
(*                                                                         *)
(* A Python str is a sequence of one-character strings, so that strip,     *)
(* lower, split and the substring test are computed and not assumed.       *)
(* A dict is a function whose DOMAIN is the set of keys present.           *)
(***************************************************************************)
EXTENDS Integers, Sequences, FiniteSets, TLC

VARIABLES
    store,    \* rows of the messages table (message_id is a unique column)
    words,    \* MessageService.inappropriate_words
    req,      \* per client: the process_message call in flight, or its outcome
    resp,     \* the last call made by the sequential client, with its result
    pager     \* a client that pages through one session with a fixed limit, or
              \* keeps the record process_message returned to it

vars == <<store, words, req, resp, pager>>

---------------------------------------------------------------------------
(* Bounds of the model *)

NumClients == 2        \* concurrent callers of process_message
MaxContentLen == 3     \* longest content drawn in the filter specification
MaxLimitArg == 3       \* largest small limit a reader asks for
MaxOffsetArg == 4      \* largest offset a reader asks for
MaxMaxLimit == 5       \* largest small max_limit handed to validate_pagination_params

---------------------------------------------------------------------------
(* Python values *)

\* None: a value that is no str (the elements of a str are single characters)
None == << "<None>" >>

WhiteSpace == {" "}

UpperCase ==
    <<"A", "B", "C", "D", "E", "F", "G", "H", "I", "J", "K", "L", "M", "N", "O", "P", "Q", "R", "S", "T", "U", "V", "W", "X", "Y", "Z">>
LowerCase ==
    <<"a", "b", "c", "d", "e", "f", "g", "h", "i", "j", "k", "l", "m", "n", "o", "p", "q", "r", "s", "t", "u", "v", "w", "x", "y", "z">>

ToLower ==
    [c \in {UpperCase[i] : i \in 1..Len(UpperCase)} |->
        LowerCase[CHOOSE i \in 1..Len(UpperCase) : UpperCase[i] = c]]

\* str.lower() on one character
LowerChar(c) == IF c \in DOMAIN ToLower THEN ToLower[c] ELSE c

\* str.lower()
Lower(s) == [i \in 1..Len(s) |-> LowerChar(s[i])]

\* str.strip()
RECURSIVE Strip(_)
Strip(s) ==
    IF s = <<>> THEN s
    ELSE IF Head(s) \in WhiteSpace THEN Strip(Tail(s))
    ELSE IF s[Len(s)] \in WhiteSpace THEN Strip(SubSeq(s, 1, Len(s) - 1))
    ELSE s

\* needle in hay (the empty str is in every str)
Contains(hay, needle) ==
    \E i \in 0..(Len(hay) - Len(needle)) :
        SubSeq(hay, i + 1, i + Len(needle)) = needle

\* len(content.split()): the maximal runs of non-whitespace characters
SplitCount(s) ==
    Cardinality({i \in 1..Len(s) :
        /\ s[i] \notin WhiteSpace
        /\ (i = 1 \/ s[i - 1] \in WhiteSpace)})

\* str(value): str(None) is "None", a str is itself
Str(v) == IF v = None THEN <<"N", "o", "n", "e">> ELSE v

\* bool(value) for None and str
Truthy(v) == v # None /\ v # <<>>

---------------------------------------------------------------------------
(* app/utils/exceptions.py *)

MessageProcessingErrorKw(kind, code, status_code, details) ==
    [raised |-> kind, code |-> code, status_code |-> status_code, details |-> details]

ValidationError(details) ==
    MessageProcessingErrorKw("ValidationError", "VALIDATION_ERROR", 400, details)

InvalidFormatError(details) ==
    MessageProcessingErrorKw("InvalidFormatError", "INVALID_FORMAT", 400, details)

InappropriateContentError(details) ==
    MessageProcessingErrorKw("InappropriateContentError", "INAPPROPRIATE_CONTENT", 400, details)

MessageNotFoundError ==
    MessageProcessingErrorKw("MessageNotFoundError", "NOT_FOUND", 404, <<>>)

\* DatabaseError; details stands for the part of its message that repeats what
\* the storage layer reported
DatabaseError(cause) ==
    MessageProcessingErrorKw("DatabaseError", "DATABASE_ERROR", 500, <<cause>>)

\* an exception of the interpreter, outside the MessageProcessingError family
BuiltinError(kind) ==
    [raised |-> kind, code |-> "", status_code |-> 0, details |-> <<>>]

\* a normal return
Return(value) == [raised |-> "", value |-> value]

IsRaise(out) == out.raised # ""

---------------------------------------------------------------------------
(* app/utils/validators.py *)

VALID_SENDERS == << <<"u", "s", "e", "r">>, <<"s", "y", "s", "t", "e", "m">> >>

InSeq(x, seq) == \E i \in 1..Len(seq) : seq[i] = x

\* the filter as it would be if the configured word were not lowered
FoundWordsCaseSensitive(content, inappropriate_words) ==
    LET content_lower == Lower(content)
    IN  SelectSeq(inappropriate_words, LAMBDA word : Contains(content_lower, word))

FoundWords(content, inappropriate_words) ==
    LET content_lower == Lower(content)
    IN  SelectSeq(inappropriate_words, LAMBDA word : Contains(content_lower, Lower(word)))

\* ContentFilter.check_inappropriate_content: the exception raised, or Return(None)
CheckInappropriateContent(content, inappropriate_words) ==
    IF content = None THEN BuiltinError("AttributeError")
    ELSE LET found_words == FoundWords(content, inappropriate_words)
         IN  IF found_words # <<>>
             THEN InappropriateContentError([inappropriate_words_found |-> found_words])
             ELSE Return(None)

DefaultLimit == 10
ServiceMaxLimit == 100

\* the normalisation as it would be without the clamp to max_limit
ValidatePaginationParamsUnclamped(limit, offset, max_limit) ==
    << IF limit < 1 THEN DefaultLimit ELSE limit,
       IF offset < 0 THEN 0 ELSE offset >>

\* PaginationValidator.validate_pagination_params
ValidatePaginationParams(limit, offset, max_limit) ==
    << IF limit < 1 THEN DefaultLimit
       ELSE IF limit > max_limit THEN max_limit
       ELSE limit,
       IF offset < 0 THEN 0 ELSE offset >>

---------------------------------------------------------------------------
(* Timestamps *)

IsoDigits == <<"1", "2", "3">>

\* datetime.fromisoformat(ts.replace('Z', '+00:00')): the instant, or 0 when the
\* text does not parse. An ISO-8601 text is one digit here, with or without a
\* trailing "Z"; the instant is the digit's value.
FromIsoFormat(ts) ==
    LET body == IF ts # <<>> /\ ts[Len(ts)] = "Z" THEN SubSeq(ts, 1, Len(ts) - 1) ELSE ts
    IN  IF Len(body) = 1 /\ InSeq(body[1], IsoDigits)
        THEN CHOOSE i \in 1..Len(IsoDigits) : IsoDigits[i] = body[1]
        ELSE 0

\* MessageValidator.validate_timestamp: the parsed instant, or InvalidFormatError
ValidateTimestamp(ts) ==
    LET parsed == FromIsoFormat(ts)
    IN  IF parsed = 0 THEN InvalidFormatError(None) ELSE Return(parsed)

\* datetime.isoformat() + 'Z'
IsoFormatZ(instant) == <<IsoDigits[instant], "Z">>

---------------------------------------------------------------------------
(* app/models/message.py *)

\* Message.__init__ as it would be if words were counted by the spaces between them
NewMessageCountsSpaces(session_id, content, sender, message_id, timestamp, gen) ==
    [message_id      |-> IF message_id = None THEN gen ELSE message_id,
     session_id      |-> session_id,
     content         |-> content,
     timestamp       |-> timestamp,
     sender          |-> sender,
     word_count      |-> IF Truthy(content)
                         THEN Cardinality({i \in 1..Len(content) : content[i] = " "}) + 1
                         ELSE 0,
     character_count |-> Len(content)]

\* Message.__init__ (gen: the id drawn when no message_id is supplied)
NewMessage(session_id, content, sender, message_id, timestamp, gen) ==
    [message_id      |-> IF message_id = None THEN gen ELSE message_id,
     session_id      |-> session_id,
     content         |-> content,
     timestamp       |-> timestamp,
     sender          |-> sender,
     word_count      |-> IF Truthy(content) THEN SplitCount(content) ELSE 0,
     character_count |-> Len(content)]

\* Message.to_dict
ToDict(m) ==
    [message_id |-> m.message_id,
     session_id |-> m.session_id,
     content    |-> m.content,
     timestamp  |-> IsoFormatZ(m.timestamp),
     sender     |-> m.sender,
     metadata   |-> [word_count |-> m.word_count,
                     character_count |-> m.character_count]]

\* message_id = db.Column(..., unique=True, ...)
UniqueViolation(rows, m) == \E r \in rows : r.message_id = m.message_id

\* nullable=False on message_id, session_id, content, sender
NotNullViolation(m) ==
    \/ m.message_id = None
    \/ m.session_id = None
    \/ m.content = None
    \/ m.sender = None

---------------------------------------------------------------------------
(* app/repositories/message_repository.py *)

\* MessageRepository.exists_by_message_id
ExistsByMessageId(rows, message_id) == \E r \in rows : r.message_id = message_id

\* the None that stands where a Message is expected
NoMessage == [none |-> TRUE]

\* MessageRepository.find_by_message_id: .first(), or None
FindByMessageId(rows, message_id) ==
    IF \E r \in rows : r.message_id = message_id
    THEN CHOOSE r \in rows : r.message_id = message_id
    ELSE NoMessage

\* save as it would be without the unique constraint on message_id
SaveWithoutUniqueConstraint(rows, m, fault) ==
    IF fault THEN [store |-> rows, out |-> DatabaseError("OperationalError")]
    ELSE IF NotNullViolation(m)
    THEN [store |-> rows, out |-> DatabaseError("IntegrityError")]
    ELSE [store |-> rows \cup {m}, out |-> Return(m)]

\* save as it would be if a failed commit were not rolled back
SaveWithoutRollback(rows, m, fault) ==
    IF UniqueViolation(rows, m) \/ NotNullViolation(m)
    THEN [store |-> rows, out |-> DatabaseError("IntegrityError")]
    ELSE IF fault THEN [store |-> rows \cup {m}, out |-> DatabaseError("OperationalError")]
    ELSE [store |-> rows \cup {m}, out |-> Return(m)]

\* MessageRepository.save: add and commit, or roll back and raise DatabaseError.
\* fault: the storage layer fails on its own (connection lost, disk full).
Save(rows, m, fault) ==
    IF fault THEN [store |-> rows, out |-> DatabaseError("OperationalError")]
    ELSE IF UniqueViolation(rows, m) \/ NotNullViolation(m)
    THEN [store |-> rows, out |-> DatabaseError("IntegrityError")]
    ELSE [store |-> rows \cup {m}, out |-> Return(m)]

\* delete_by_message_id as it would be if it deleted by session_id
DeleteByMessageIdWholeSession(rows, message_id, fault) ==
    IF fault THEN [store |-> rows, out |-> DatabaseError("OperationalError")]
    ELSE IF FindByMessageId(rows, message_id) = NoMessage
    THEN [store |-> rows, out |-> Return(FALSE)]
    ELSE [store |-> {r \in rows : r.session_id # FindByMessageId(rows, message_id).session_id},
          out |-> Return(TRUE)]

\* MessageRepository.delete_by_message_id. fault: the lookup or the commit
\* raises SQLAlchemyError; after the rollback the table is as it was.
DeleteByMessageId(rows, message_id, fault) ==
    IF fault THEN [store |-> rows, out |-> DatabaseError("OperationalError")]
    ELSE IF FindByMessageId(rows, message_id) = NoMessage
    THEN [store |-> rows, out |-> Return(FALSE)]
    ELSE [store |-> rows \ {FindByMessageId(rows, message_id)}, out |-> Return(TRUE)]

\* the query as it would be without the sender filter
SessionQueryAnySender(rows, session_id, sender) ==
    {r \in rows : r.session_id = session_id}

\* Message.query.filter_by(session_id=...) and, if sender:, .filter_by(sender=...)
SessionQuery(rows, session_id, sender) ==
    {r \in rows : /\ r.session_id = session_id
                  /\ (Truthy(sender) => r.sender = sender)}

\* MessageRepository.count_by_session_id
CountBySessionId(rows, session_id, sender) ==
    Cardinality(SessionQuery(rows, session_id, sender))

\* query.order_by(Message.timestamp.asc()): every listing of the rows with
\* non-decreasing timestamps; rows of equal timestamp come in an order the
\* storage engine chooses
OrderByTimestampAsc(rows) ==
    {q \in [1..Cardinality(rows) -> rows] :
        /\ \A i, j \in 1..Cardinality(rows) : i # j => q[i] # q[j]
        /\ \A i, j \in 1..Cardinality(rows) : i < j => q[i].timestamp <= q[j].timestamp}

Min(a, b) == IF a < b THEN a ELSE b

\* the page as it would be if the offset skipped one row more
OffsetLimitSkipsOneMore(ordered, offset, limit) ==
    SubSeq(ordered, offset + 2, Min(Len(ordered), offset + 1 + limit))

\* .offset(offset).limit(limit).all()
OffsetLimit(ordered, offset, limit) ==
    SubSeq(ordered, offset + 1, Min(Len(ordered), offset + limit))

\* MessageRepository.find_by_session_id, the engine having listed the rows as ordered
FindBySessionId(rows, session_id, limit, offset, sender, ordered) ==
    << OffsetLimit(ordered, offset, limit),
       Cardinality(SessionQuery(rows, session_id, sender)) >>

\* search_term = f"%{query.lower()}%"
SearchTerm(query) == <<"%">> \o Lower(query) \o <<"%">>

\* the SQL operator LIKE on texts of one case: % stands for any run of
\* characters, _ for any one character, every other character for itself
RECURSIVE Like(_, _)
Like(text, pattern) ==
    IF pattern = <<>> THEN text = <<>>
    ELSE IF Head(pattern) = "%"
    THEN Like(text, Tail(pattern)) \/ (text # <<>> /\ Like(Tail(text), pattern))
    ELSE /\ text # <<>>
         /\ (Head(pattern) = "_" \/ Head(pattern) = Head(text))
         /\ Like(Tail(text), Tail(pattern))

\* column.ilike(pattern): lower(column) LIKE lower(pattern)
ILike(text, pattern) == Like(Lower(text), Lower(pattern))

\* Message.query.filter(Message.content.ilike(search_term))
GlobalSearchQuery(rows, query) == {r \in rows : ILike(r.content, SearchTerm(query))}

\* Message.count_global_search_results
CountGlobalSearchResults(rows, query) == Cardinality(GlobalSearchQuery(rows, query))

\* query.order_by(Message.timestamp.desc()): every listing of the rows with
\* non-increasing timestamps; rows of equal timestamp come in an order the
\* storage engine chooses
OrderByTimestampDesc(rows) ==
    {q \in [1..Cardinality(rows) -> rows] :
        /\ \A i, j \in 1..Cardinality(rows) : i # j => q[i] # q[j]
        /\ \A i, j \in 1..Cardinality(rows) : i < j => q[i].timestamp >= q[j].timestamp}

\* MessageRepository.search_globally, the engine having listed the rows as ordered
SearchGlobally(rows, query, limit, offset, ordered) ==
    << OffsetLimit(ordered, offset, limit), CountGlobalSearchResults(rows, query) >>

---------------------------------------------------------------------------
(* app/services/message_service.py *)

RequiredFields == <<"message_id", "session_id", "timestamp", "content", "sender">>

\* MessageService._validate_basic_fields: the fields it collects as missing
MissingFields(message_data) ==
    SelectSeq(RequiredFields,
              LAMBDA field : \/ field \notin DOMAIN message_data
                             \/ Strip(Str(message_data[field])) = <<>>)

\* MessageService._validate_basic_fields: ValidationError is constructed with the
\* keyword code=, which ValidationError.__init__(message, details) does not take,
\* so the raise statement itself ends in TypeError
ValidateBasicFields(message_data) ==
    IF MissingFields(message_data) # <<>> THEN BuiltinError("TypeError")
    ELSE Return(None)

\* MessageService._create_message_from_data
CreateMessageFromData(message_data, gen) ==
    LET timestamp == ValidateTimestamp(message_data.timestamp)
    IN  IF IsRaise(timestamp) THEN timestamp
        ELSE Return(NewMessage(message_data.session_id,
                               message_data.content,
                               message_data.sender,
                               message_data.message_id,
                               timestamp.value,
                               gen))

\* steps 1 to 4 as they would be without the exists_by_message_id check
PrepareMessageWithoutDuplicateCheck(rows, inappropriate_words, message_data, gen) ==
    LET basic    == ValidateBasicFields(message_data)
        filtered == CheckInappropriateContent(message_data.content, inappropriate_words)
    IN  IF IsRaise(basic) THEN basic
        ELSE IF IsRaise(filtered) THEN filtered
        ELSE CreateMessageFromData(message_data, gen)

\* MessageService.process_message, steps 1 to 4: the exception raised, or the
\* Message handed to the repository
PrepareMessage(rows, inappropriate_words, message_data, gen) ==
    LET basic    == ValidateBasicFields(message_data)
        filtered == CheckInappropriateContent(message_data.content, inappropriate_words)
    IN  IF IsRaise(basic) THEN basic
        ELSE IF /\ Truthy(message_data.message_id)
                /\ ExistsByMessageId(rows, message_data.message_id)
        THEN ValidationError(None)
        ELSE IF IsRaise(filtered) THEN filtered
        ELSE CreateMessageFromData(message_data, gen)

\* steps 5 and 6 as they would be if process_message caught the failure of the
\* save and returned the record all the same
SaveMessageHidesFailure(rows, m, fault) ==
    LET saved == Save(rows, m, fault)
    IN  [store |-> saved.store, out |-> Return(ToDict(m))]

\* MessageService.process_message, steps 5 and 6
SaveMessage(rows, m, fault) ==
    LET saved == Save(rows, m, fault)
    IN  [store |-> saved.store,
         out   |-> IF IsRaise(saved.out) THEN saved.out
                   ELSE Return(ToDict(saved.out.value))]

\* process_message as it would be if it replaced the stored message that has
\* the message_id of the payload instead of refusing the payload
ProcessMessageCallUpserting(rows, inappropriate_words, message_data, fault, gen) ==
    LET prepared == PrepareMessageWithoutDuplicateCheck(rows, inappropriate_words,
                                                        message_data, gen)
    IN  IF IsRaise(prepared) THEN [store |-> rows, out |-> prepared]
        ELSE SaveMessage({r \in rows : r.message_id # prepared.value.message_id},
                         prepared.value, fault)

\* MessageService.process_message run without interruption
ProcessMessageCall(rows, inappropriate_words, message_data, fault, gen) ==
    LET prepared == PrepareMessage(rows, inappropriate_words, message_data, gen)
    IN  IF IsRaise(prepared) THEN [store |-> rows, out |-> prepared]
        ELSE SaveMessage(rows, prepared.value, fault)

\* get_messages_by_session as it would be with has_next = (offset + limit) <= total
GetMessagesBySessionHasNextInclusive(rows, session_id, limit, offset, sender, ordered, fault) ==
    LET p     == ValidatePaginationParams(limit, offset, ServiceMaxLimit)
        found == FindBySessionId(rows, session_id, p[1], p[2], sender, ordered)
    IN  IF Truthy(sender) /\ ~InSeq(sender, VALID_SENDERS)
        THEN ValidationError(None)
        ELSE IF fault THEN DatabaseError("OperationalError")
        ELSE Return([messages   |-> [i \in 1..Len(found[1]) |-> ToDict(found[1][i])],
                     pagination |-> [total    |-> found[2],
                                     limit    |-> p[1],
                                     offset   |-> p[2],
                                     has_next |-> (p[2] + p[1]) <= found[2],
                                     has_prev |-> p[2] > 0]])

\* get_messages_by_session as it would be if the sender were checked after the query
GetMessagesBySessionQueryFirst(rows, session_id, limit, offset, sender, ordered, fault) ==
    LET p     == ValidatePaginationParams(limit, offset, ServiceMaxLimit)
        found == FindBySessionId(rows, session_id, p[1], p[2], sender, ordered)
    IN  IF fault THEN DatabaseError("OperationalError")
        ELSE IF Truthy(sender) /\ ~InSeq(sender, VALID_SENDERS)
        THEN ValidationError(None)
        ELSE Return([messages   |-> [i \in 1..Len(found[1]) |-> ToDict(found[1][i])],
                     pagination |-> [total    |-> found[2],
                                     limit    |-> p[1],
                                     offset   |-> p[2],
                                     has_next |-> (p[2] + p[1]) < found[2],
                                     has_prev |-> p[2] > 0]])

\* MessageService.get_messages_by_session. ordered: the listing the engine gives
\* the rows of the query; fault: the query fails in the storage layer.
GetMessagesBySession(rows, session_id, limit, offset, sender, ordered, fault) ==
    LET p     == ValidatePaginationParams(limit, offset, ServiceMaxLimit)
        found == FindBySessionId(rows, session_id, p[1], p[2], sender, ordered)
    IN  IF Truthy(sender) /\ ~InSeq(sender, VALID_SENDERS)
        THEN ValidationError(None)
        ELSE IF fault THEN DatabaseError("OperationalError")
        ELSE Return([messages   |-> [i \in 1..Len(found[1]) |-> ToDict(found[1][i])],
                     pagination |-> [total    |-> found[2],
                                     limit    |-> p[1],
                                     offset   |-> p[2],
                                     has_next |-> (p[2] + p[1]) < found[2],
                                     has_prev |-> p[2] > 0]])

\* MessageService.delete_message
DeleteMessageCall(rows, message_id, fault) == DeleteByMessageId(rows, message_id, fault)

\* get_message_by_id as it would be without the test `if not message`
GetMessageByIdWithoutNotFound(rows, message_id, fault) ==
    IF fault THEN DatabaseError("OperationalError")
    ELSE IF FindByMessageId(rows, message_id) = NoMessage THEN BuiltinError("AttributeError")
    ELSE Return(ToDict(FindByMessageId(rows, message_id)))

\* MessageService.get_message_by_id. fault: the query fails in the storage layer.
GetMessageById(rows, message_id, fault) ==
    IF fault THEN DatabaseError("OperationalError")
    ELSE IF FindByMessageId(rows, message_id) = NoMessage THEN MessageNotFoundError
    ELSE Return(ToDict(FindByMessageId(rows, message_id)))

\* get_session_statistics as it would be if the system messages were taken to
\* be all that are not user messages
GetSessionStatisticsSystemIsRest(rows, session_id, fault) ==
    IF fault THEN DatabaseError("OperationalError")
    ELSE Return([session_id      |-> session_id,
                 total_messages  |-> CountBySessionId(rows, session_id, None),
                 user_messages   |-> CountBySessionId(rows, session_id, <<"u", "s", "e", "r">>),
                 system_messages |-> CountBySessionId(rows, session_id, None)
                                     - CountBySessionId(rows, session_id,
                                                        <<"u", "s", "e", "r">>)])

\* MessageService.get_session_statistics
GetSessionStatistics(rows, session_id, fault) ==
    IF fault THEN DatabaseError("OperationalError")
    ELSE Return([session_id      |-> session_id,
                 total_messages  |-> CountBySessionId(rows, session_id, None),
                 user_messages   |-> CountBySessionId(rows, session_id, <<"u", "s", "e", "r">>),
                 system_messages |-> CountBySessionId(rows, session_id,
                                                      <<"s", "y", "s", "t", "e", "m">>)])

\* MessageService.search_messages_globally: the test of the query
QueryTooShort(query) == ~Truthy(query) \/ Len(Strip(query)) < 3

\* search_messages_globally as it would be with next_offset given whenever
\* (offset + limit) <= total_results
SearchMessagesGloballyNextOffsetInclusive(rows, query, limit, offset, ordered, fault) ==
    LET p     == ValidatePaginationParams(limit, offset, ServiceMaxLimit)
        found == SearchGlobally(rows, query, p[1], p[2], ordered)
    IN  IF QueryTooShort(query) THEN BuiltinError("TypeError")
        ELSE IF fault THEN DatabaseError("OperationalError")
        ELSE Return([data       |-> [i \in 1..Len(found[1]) |-> ToDict(found[1][i])],
                     pagination |-> [total_results |-> found[2],
                                     limit         |-> p[1],
                                     offset        |-> p[2],
                                     next_offset   |-> IF (p[2] + p[1]) <= found[2]
                                                       THEN << p[2] + p[1] >>
                                                       ELSE <<>>]])

\* MessageService.search_messages_globally. ValidationError is constructed with
\* the keyword code=, which ValidationError.__init__(message, details) does not
\* take, so the raise statement itself ends in TypeError. next_offset is <<n>>
\* for the integer n and <<>> for None.
SearchMessagesGlobally(rows, query, limit, offset, ordered, fault) ==
    LET p     == ValidatePaginationParams(limit, offset, ServiceMaxLimit)
        found == SearchGlobally(rows, query, p[1], p[2], ordered)
    IN  IF QueryTooShort(query) THEN BuiltinError("TypeError")
        ELSE IF fault THEN DatabaseError("OperationalError")
        ELSE Return([data       |-> [i \in 1..Len(found[1]) |-> ToDict(found[1][i])],
                     pagination |-> [total_results |-> found[2],
                                     limit         |-> p[1],
                                     offset        |-> p[2],
                                     next_offset   |-> IF (p[2] + p[1]) < found[2]
                                                       THEN << p[2] + p[1] >>
                                                       ELSE <<>>]])

---------------------------------------------------------------------------
(* app/schemas/message_schema.py and app/controllers/message_controller.py *)

MaxIdLength == 255
MaxContentLength == 5000

\* message_input_schema.load accepts the payload
SchemaValid(json) ==
    /\ \A f \in {"message_id", "session_id", "content", "sender", "timestamp"} :
          f \in DOMAIN json /\ json[f] # None
    /\ Len(json.message_id) >= 1 /\ Len(json.message_id) <= MaxIdLength
    /\ Len(json.session_id) >= 1 /\ Len(json.session_id) <= MaxIdLength
    /\ Len(json.content) >= 1 /\ Len(json.content) <= MaxContentLength
    /\ InSeq(json.sender, VALID_SENDERS)
    /\ FromIsoFormat(json.timestamp) # 0

\* MessageController._error_response with its status code
ErrorResponse(code, status_code, details) ==
    [status_code |-> status_code,
     body |-> [status |-> "error",
               error |-> [code |-> code, details |-> details]]]

\* the 201 response of create_message
CreatedResponse(data) ==
    [status_code |-> 201, body |-> [status |-> "success", data |-> data]]

\* the broadcast as it would be if it did not wait for process_message to return
BroadcastWhateverTheOutcome(out, emit_fails) ==
    IF emit_fails THEN <<>>
    ELSE << [event |-> "new_message",
             data  |-> IF IsRaise(out) THEN None ELSE out.value] >>

\* broadcast_new_message, reached when process_message has returned: the events
\* sent to the connected clients. emit_fails: socketio.emit raises.
BroadcastNewMessage(out, emit_fails) ==
    IF IsRaise(out) \/ emit_fails THEN <<>>
    ELSE << [event |-> "new_message", data |-> out.value] >>

\* MessageController.create_message before it calls the service: the response
\* it returns, or Return(payload) when the payload goes on to process_message
CreateMessageAdmit(request) ==
    IF ~request.is_json THEN ErrorResponse("INVALID_CONTENT_TYPE", 400, None)
    ELSE IF ~request.parses THEN ErrorResponse("INVALID_JSON", 400, None)
    ELSE IF DOMAIN request.json = {} THEN ErrorResponse("EMPTY_PAYLOAD", 400, None)
    ELSE IF ~SchemaValid(request.json)
    THEN ErrorResponse("SCHEMA_VALIDATION_ERROR", 400, None)
    ELSE Return(request.json)

\* create_message as it would be with one clause, `except
\* MessageProcessingError as e`, that answers e.code with e.status_code
CreateMessageRespondByItsOwnCode(out, emit_fails) ==
    IF ~IsRaise(out)
    THEN IF emit_fails
         THEN ErrorResponse("INTERNAL_ERROR", 500, None)
         ELSE CreatedResponse(out.value)
    ELSE IF out.code # ""
    THEN ErrorResponse(out.code, out.status_code, out.details)
    ELSE ErrorResponse("INTERNAL_ERROR", 500, None)

\* MessageController.create_message after process_message: the broadcast and the
\* 201 response, or the except clause that matches what was raised.
\* emit_fails: socketio.emit raises.
CreateMessageRespond(out, emit_fails) ==
    IF ~IsRaise(out)
    THEN IF emit_fails
         THEN ErrorResponse("INTERNAL_ERROR", 500, None)
         ELSE CreatedResponse(out.value)
    ELSE IF out.raised \in {"ValidationError", "InvalidFormatError",
                            "InappropriateContentError"}
    THEN ErrorResponse(out.code, out.status_code, out.details)
    ELSE IF out.raised = "DatabaseError"
    THEN ErrorResponse(out.code, 500, None)
    ELSE ErrorResponse("INTERNAL_ERROR", 500, None)

\* int(text) on a run of decimal digits
RECURSIVE DecimalValue(_)
DecimalValue(digits) ==
    IF digits = <<>> THEN 0
    ELSE 10 * DecimalValue(SubSeq(digits, 1, Len(digits) - 1))
         + (CHOOSE d \in 0..9 : <<"0", "1", "2", "3", "4", "5", "6", "7", "8", "9">>[d + 1]
                                    = digits[Len(digits)])

\* int(text): the text is stripped, may carry a sign, and must then be a run of
\* decimal digits, else ValueError
PyInt(value) ==
    LET text   == Strip(value)
        signed == text # <<>> /\ Head(text) \in {"-", "+"}
        digits == IF signed THEN Tail(text) ELSE text
    IN  IF \/ digits = <<>>
           \/ \E i \in 1..Len(digits) :
                 digits[i] \notin {"0", "1", "2", "3", "4", "5", "6", "7", "8", "9"}
        THEN BuiltinError("ValueError")
        ELSE Return(IF signed /\ Head(text) = "-" THEN 0 - DecimalValue(digits)
                    ELSE DecimalValue(digits))

\* MessageController.get_message_by_id
GetMessageByIdResponse(rows, message_id, fault) ==
    LET out == GetMessageById(rows, message_id, fault)
    IN  IF ~Truthy(message_id) \/ Strip(message_id) = <<>>
        THEN ErrorResponse("INVALID_MESSAGE_ID", 400, None)
        ELSE IF ~IsRaise(out)
        THEN [status_code |-> 200, body |-> [status |-> "success", data |-> out.value]]
        ELSE IF out.raised = "MessageNotFoundError"
        THEN ErrorResponse(out.code, out.status_code, None)
        ELSE IF out.raised = "DatabaseError"
        THEN ErrorResponse(out.code, 500, None)
        ELSE ErrorResponse("INTERNAL_ERROR", 500, None)

\* MessageController.get_session_stats
GetSessionStatsResponse(rows, session_id, fault) ==
    LET out == GetSessionStatistics(rows, session_id, fault)
    IN  IF ~Truthy(session_id) \/ Strip(session_id) = <<>>
        THEN ErrorResponse("INVALID_SESSION_ID", 400, None)
        ELSE IF ~IsRaise(out)
        THEN [status_code |-> 200, body |-> [status |-> "success", data |-> out.value]]
        ELSE IF out.raised = "DatabaseError"
        THEN ErrorResponse(out.code, 500, None)
        ELSE ErrorResponse("INTERNAL_ERROR", 500, None)

\* int(request.args.get(key, default)), the default being an int already
IntArg(args, key, default) ==
    IF key \in DOMAIN args THEN PyInt(args[key]) ELSE Return(default)

\* MessageController.search_messages_globally: the arguments it hands to the
\* service, or the exception of int()
SearchArgs(args) ==
    LET limit  == IntArg(args, "limit", 10)
        offset == IntArg(args, "offset", 0)
    IN  IF IsRaise(limit) THEN limit
        ELSE IF IsRaise(offset) THEN offset
        ELSE Return([query  |-> IF "query" \in DOMAIN args THEN args.query ELSE None,
                     limit  |-> limit.value,
                     offset |-> offset.value])

\* MessageController.search_messages_globally, given what the service did with
\* the arguments; message_list_response_schema.dump adds status 'success'
SearchResponse(parsed, out) ==
    IF IsRaise(parsed) THEN ErrorResponse("INTERNAL_ERROR", 500, None)
    ELSE IF ~IsRaise(out)
    THEN [status_code |-> 200,
          body |-> [status |-> "success", data |-> out.value.data,
                    pagination |-> out.value.pagination]]
    ELSE IF out.raised = "ValidationError"
    THEN ErrorResponse(out.code, 400, out.details)
    ELSE ErrorResponse("INTERNAL_ERROR", 500, None)

---------------------------------------------------------------------------
(* app/utils/auth.py *)

\* str.startswith(prefix)
StartsWith(text, prefix) ==
    Len(text) >= Len(prefix) /\ SubSeq(text, 1, Len(prefix)) = prefix

\* str.split(' '): the runs between single spaces, empty runs included
RECURSIVE SplitOnSpace(_)
SplitOnSpace(text) ==
    IF \A i \in 1..Len(text) : text[i] # " " THEN << text >>
    ELSE LET at == CHOOSE i \in 1..Len(text) :
                       text[i] = " " /\ \A j \in 1..(i - 1) : text[j] # " "
         IN  << SubSeq(text, 1, at - 1) >> \o SplitOnSpace(SubSeq(text, at + 1, Len(text)))

\* the jsonify'd error of api_key_required
AuthErrorResponse(code, status_code) ==
    [status_code |-> status_code,
     body        |-> [status |-> "error", error |-> [code |-> code]]]

\* the decorator as it would be without the test of the key against API_KEYS
ApiKeyRequiredAnyKey(headers, api_keys) ==
    LET auth_header == IF "Authorization" \in DOMAIN headers
                       THEN headers["Authorization"] ELSE None
    IN  IF ~Truthy(auth_header)
           \/ ~StartsWith(auth_header, <<"B", "e", "a", "r", "e", "r", " ">>)
        THEN AuthErrorResponse("AUTH_REQUIRED", 401)
        ELSE Return(SplitOnSpace(auth_header)[2])

\* api_key_required.decorated_function before it calls the handler: the response
\* it returns, or Return(api_key) when the request goes on to the handler
ApiKeyRequired(headers, api_keys) ==
    LET auth_header == IF "Authorization" \in DOMAIN headers
                       THEN headers["Authorization"] ELSE None
    IN  IF ~Truthy(auth_header)
           \/ ~StartsWith(auth_header, <<"B", "e", "a", "r", "e", "r", " ">>)
        THEN AuthErrorResponse("AUTH_REQUIRED", 401)
        ELSE IF ~InSeq(SplitOnSpace(auth_header)[2], api_keys)
        THEN AuthErrorResponse("INVALID_API_KEY", 403)
        ELSE Return(SplitOnSpace(auth_header)[2])

---------------------------------------------------------------------------
(* Inputs *)

Clients == 1..NumClients

m1 == <<"m", "1">>
m2 == <<"m", "2">>
m3 == <<"m", "3">>
m4 == <<"m", "4">>
m5 == <<"m", "5">>
s1 == <<"s", "1">>
s2 == <<"s", "2">>
User == VALID_SENDERS[1]
System == VALID_SENDERS[2]
Bot == <<"b", "o", "t">>
Blank == <<" ">>
Hello == <<"h", "i", " ", "y", "o", "u">>
BuySpam == <<"b", "u", "y", " ", "S", "p", "a", "m">>
T1 == <<"1", "Z">>
T2 == <<"2", "Z">>
BadTime == <<"x">>

\* app/config.py, Config.INAPPROPRIATE_WORDS
INAPPROPRIATE_WORDS ==
    << <<"s", "p", "a", "m">>,
       <<"m", "a", "l", "w", "a", "r", "e">>,
       <<"v", "i", "r", "u", "s">>,
       <<"h", "a", "c", "k">>,
       <<"p", "h", "i", "s", "h", "i", "n", "g">> >>

\* the id Message.__init__ draws (msg_<time>_<uuid4 prefix>) when none is supplied
GenIds == { <<"g", "1">>, <<"g", "2">> }

MessageData(message_id, session_id, timestamp, content, sender) ==
    [message_id |-> message_id, session_id |-> session_id, timestamp |-> timestamp,
     content |-> content, sender |-> sender]

\* payloads of the callers of the create path: a valid one; one that differs
\* from it in timestamp and sender only; one with a configured word; one with a
\* blank content; one with a timestamp that does not parse; one with no
\* session_id; one with no message_id; one that lacks the content field
CreateInputs ==
    { MessageData(m1, s1, T1, Hello, User),
      MessageData(m1, s1, T2, Hello, Bot),
      MessageData(m1, s2, T2, BuySpam, User),
      MessageData(m1, s1, T1, Blank, User),
      MessageData(m2, s1, BadTime, Hello, User),
      MessageData(m2, None, T1, Hello, User),
      MessageData(None, s1, T1, Hello, User),
      [message_id |-> m2, session_id |-> s1, timestamp |-> T1, sender |-> User] }

HttpRequest(is_json, parses, json) ==
    [is_json |-> is_json, parses |-> parses, json |-> json]

\* requests to POST /api/messages: JSON payloads, a body that is not JSON, a
\* body that does not parse and an empty object
CreateRequests ==
    { HttpRequest(TRUE, TRUE, MessageData(m1, s1, T1, Hello, User)),
      HttpRequest(TRUE, TRUE, MessageData(m1, s1, T2, Hello, Bot)),
      HttpRequest(TRUE, TRUE, MessageData(m1, s2, T2, BuySpam, User)),
      HttpRequest(TRUE, TRUE, MessageData(m1, s1, T1, Blank, User)),
      HttpRequest(FALSE, TRUE, MessageData(m1, s1, T1, Hello, User)),
      HttpRequest(TRUE, FALSE, <<>>),
      HttpRequest(TRUE, TRUE, <<>>) }

---------------------------------------------------------------------------
(* State *)

Idle == [pc |-> "idle"]
NoCall == [op |-> "none"]
NoPager == [state |-> "idle"]

\* the service over a table holding rows, configured with inappropriate_words
InitWith(rows, inappropriate_words) ==
    /\ store = rows
    /\ words = inappropriate_words
    /\ req = [c \in Clients |-> Idle]
    /\ resp = NoCall
    /\ pager = NoPager

\* the service and the empty table as create_app leaves them
Init == InitWith({}, INAPPROPRIATE_WORDS)

-------------------------------------------------------------------------------------------------------------------------------------------------
(* Concurrent callers: process_message reads the table in steps 1 to 4 and   *)
(* writes it in step 5; other callers run between the two. A call that has   *)
(* ended is recorded in resp with what it returned or raised.                *)

Call(op, args, out) == [op |-> op, args |-> args, out |-> out]

\* a create_message request that has ended: its response and the events it
\* broadcast
CreateCall(request, response, emitted) ==
    [op |-> "create_message", args |-> request, out |-> response, emitted |-> emitted]

Saving(via, data, m) == [pc |-> "saving", via |-> via, data |-> data, message |-> m]

\* a caller of MessageService.process_message runs steps 1 to 4
BeginProcessMessage(c, message_data, gen) ==
    /\ req[c].pc = "idle"
    /\ LET prepared == PrepareMessage(store, words, message_data, gen)
       IN  IF IsRaise(prepared)
           THEN /\ resp' = Call("process_message", message_data, prepared)
                /\ req' = req
           ELSE /\ req' = [req EXCEPT ![c] = Saving("service", message_data, prepared.value)]
                /\ resp' = resp
    /\ UNCHANGED <<store, words, pager>>

\* POST /api/messages: create_message up to the end of step 4 of process_message
BeginCreateMessage(c, request, gen) ==
    /\ req[c].pc = "idle"
    /\ LET admit    == CreateMessageAdmit(request)
           prepared == PrepareMessage(store, words, request.json, gen)
       IN  IF "status_code" \in DOMAIN admit
           THEN /\ resp' = CreateCall(request, admit, <<>>)
                /\ req' = req
           ELSE IF IsRaise(prepared)
           THEN /\ resp' = CreateCall(request, CreateMessageRespond(prepared, FALSE),
                                      BroadcastNewMessage(prepared, FALSE))
                /\ req' = req
           ELSE /\ req' = [req EXCEPT ![c] = Saving("http", request, prepared.value)]
                /\ resp' = resp
    /\ UNCHANGED <<store, words, pager>>

\* the caller's save: MessageRepository.save and the return of process_message
FinishProcessMessage(c, fault) ==
    /\ req[c].pc = "saving"
    /\ req[c].via = "service"
    /\ LET saved == SaveMessage(store, req[c].message, fault)
       IN  /\ store' = saved.store
           /\ resp' = Call("process_message", req[c].data, saved.out)
    /\ req' = [req EXCEPT ![c] = Idle]
    /\ UNCHANGED <<words, pager>>

\* the endpoint's save: MessageRepository.save, the return of process_message,
\* the broadcast and the response
FinishCreateMessage(c, fault, emit_fails) ==
    /\ req[c].pc = "saving"
    /\ req[c].via = "http"
    /\ LET saved == SaveMessage(store, req[c].message, fault)
       IN  /\ store' = saved.store
           /\ resp' = CreateCall(req[c].data,
                                 CreateMessageRespond(saved.out, emit_fails),
                                 BroadcastNewMessage(saved.out, emit_fails))
    /\ req' = [req EXCEPT ![c] = Idle]
    /\ UNCHANGED <<words, pager>>

\* a write that changed the table since the reader fetched its first page, or
\* since the client was returned the record it keeps
PagerAfterWrite(p, changed) ==
    IF p.state \in {"paging", "done", "kept"} /\ changed
    THEN [p EXCEPT !.clean = FALSE] ELSE p

\* MessageService.delete_message
DeleteMessage(message_id, fault) ==
    /\ LET deleted == DeleteMessageCall(store, message_id, fault)
       IN  /\ store' = deleted.store
           /\ resp' = Call("delete_message",
                           [message_id |-> message_id, storage_fails |-> fault],
                           deleted.out)
           /\ pager' = PagerAfterWrite(pager, deleted.store # store)
    /\ UNCHANGED <<words, req>>

\* the callers and the deletes that succeed or find nothing; a delete that fails
\* in the storage layer leaves the table as it was
Next ==
    \/ \E c \in Clients, d \in CreateInputs, g \in GenIds : BeginProcessMessage(c, d, g)
    \/ \E c \in Clients, r \in CreateRequests, g \in GenIds : BeginCreateMessage(c, r, g)
    \/ \E c \in Clients, fault \in BOOLEAN : FinishProcessMessage(c, fault)
    \/ \E c \in Clients, fault, emit_fails \in BOOLEAN : FinishCreateMessage(c, fault, emit_fails)
    \/ \E id \in {m1, m2} : DeleteMessage(id, FALSE)

Spec == Init /\ [][Next]_vars

---------------------------------------------------------------------------
(* A single caller: each call runs to its end before the next one begins *)

\* MessageService.process_message
ProcessMessage(message_data, fault, gen) ==
    /\ LET done == ProcessMessageCall(store, words, message_data, fault, gen)
       IN  /\ store' = done.store
           /\ resp' = Call("process_message", message_data, done.out)
           /\ pager' = PagerAfterWrite(pager, done.store # store)
    /\ UNCHANGED <<words, req>>

\* PaginationValidator.validate_pagination_params
ValidatePagination(limit, offset, max_limit) ==
    /\ resp' = Call("validate_pagination_params",
                    [limit |-> limit, offset |-> offset, max_limit |-> max_limit],
                    Return(ValidatePaginationParams(limit, offset, max_limit)))
    /\ UNCHANGED <<store, words, req, pager>>

\* what a reader hands to get_messages_by_session, and whether the storage
\* layer fails while the call runs
ReadArgs(session_id, limit, offset, sender, fault) ==
    [session_id |-> session_id, limit |-> limit, offset |-> offset,
     sender |-> sender, storage_fails |-> fault]

\* MessageService.get_messages_by_session
GetMessages(session_id, limit, offset, sender, ordered, fault) ==
    /\ resp = NoCall
    /\ resp' = Call("get_messages_by_session",
                    ReadArgs(session_id, limit, offset, sender, fault),
                    GetMessagesBySession(store, session_id, limit, offset, sender,
                                         ordered, fault))
    /\ UNCHANGED <<store, words, req, pager>>

\* request.args.get(key, default, type=...)
QueryArg(args, key, default) == IF key \in DOMAIN args THEN args[key] ELSE default

\* the 200 response of the GET endpoint
ListResponse(result) ==
    [status_code |-> 200,
     body |-> [status |-> "success", data |-> result.messages,
               pagination |-> result.pagination]]

\* MessageController.get_messages_by_session
GetMessagesResponse(rows, session_id, args, ordered, fault) ==
    LET limit  == QueryArg(args, "limit", 10)
        offset == QueryArg(args, "offset", 0)
        sender == QueryArg(args, "sender", None)
        out    == GetMessagesBySession(rows, session_id, limit, offset, sender,
                                       ordered, fault)
    IN  IF ~Truthy(session_id) \/ Strip(session_id) = <<>>
        THEN ErrorResponse("INVALID_SESSION_ID", 400, None)
        ELSE IF ~IsRaise(out) THEN ListResponse(out.value)
        ELSE IF out.raised = "ValidationError"
        THEN ErrorResponse(out.code, out.status_code, out.details)
        ELSE IF out.raised = "DatabaseError"
        THEN ErrorResponse(out.code, 500, None)
        ELSE ErrorResponse("INTERNAL_ERROR", 500, None)

\* GET /api/messages/<session_id>
GetMessagesEndpoint(session_id, args, ordered, fault) ==
    /\ resp = NoCall
    /\ resp' = Call("get_messages_endpoint",
                    [session_id |-> session_id, query |-> args, storage_fails |-> fault],
                    GetMessagesResponse(store, session_id, args, ordered, fault))
    /\ UNCHANGED <<store, words, req, pager>>

\* the reader takes the answer to its call; its next call follows
TakeResponse ==
    /\ resp.op # "none"
    /\ resp' = NoCall
    /\ UNCHANGED <<store, words, req, pager>>

\* a reader starts to page through a session with a fixed limit, from offset 0;
\* seen: the message_id of every message of the pages it was returned, in order
StartPaging(session_id, limit) ==
    /\ pager.state # "paging"
    /\ pager' = [state |-> "paging", session_id |-> session_id, limit |-> limit,
                 offset |-> 0, pages |-> 0, total_len |-> 0, last_offset |-> 0,
                 has_next |-> TRUE, clean |-> TRUE, seen |-> <<>>]
    /\ UNCHANGED <<store, words, req, resp>>

\* the reader asks for the page at its offset and moves on by its limit, until
\* has_next is false
FetchPage(ordered, fault) ==
    /\ pager.state = "paging"
    /\ LET out == GetMessagesBySession(store, pager.session_id, pager.limit,
                                       pager.offset, None, ordered, fault)
       IN  /\ resp' = Call("get_messages_by_session",
                           ReadArgs(pager.session_id, pager.limit, pager.offset, None, fault),
                           out)
           /\ pager' = IF IsRaise(out) THEN [pager EXCEPT !.state = "failed"]
                       ELSE [pager EXCEPT
                               !.state = IF out.value.pagination.has_next
                                         THEN "paging" ELSE "done",
                               !.offset = @ + pager.limit,
                               !.pages = @ + 1,
                               !.total_len = @ + Len(out.value.messages),
                               !.seen = @ \o [i \in 1..Len(out.value.messages) |->
                                                out.value.messages[i].message_id],
                               !.last_offset = pager.offset,
                               !.has_next = out.value.pagination.has_next]
    /\ UNCHANGED <<store, words, req>>

\* MessageService.search_messages_globally
SearchMessages(query, limit, offset, ordered, fault) ==
    /\ resp = NoCall
    /\ resp' = Call("search_messages_globally",
                    [query |-> query, limit |-> limit, offset |-> offset,
                     storage_fails |-> fault],
                    SearchMessagesGlobally(store, query, limit, offset, ordered, fault))
    /\ UNCHANGED <<store, words, req, pager>>

\* GET /api/messages/search/all
SearchEndpoint(args, ordered, fault) ==
    /\ resp = NoCall
    /\ LET parsed == SearchArgs(args)
           out    == IF IsRaise(parsed) THEN parsed
                     ELSE SearchMessagesGlobally(store, parsed.value.query,
                                                 parsed.value.limit, parsed.value.offset,
                                                 ordered, fault)
       IN  resp' = Call("search_endpoint",
                        [query |-> args, storage_fails |-> fault],
                        SearchResponse(parsed, out))
    /\ UNCHANGED <<store, words, req, pager>>

\* MessageService.process_message called by a client that keeps the record it
\* is returned
ProcessAndKeep(message_data, fault, gen) ==
    /\ pager = NoPager
    /\ LET done == ProcessMessageCall(store, words, message_data, fault, gen)
       IN  /\ store' = done.store
           /\ resp' = Call("process_message", message_data, done.out)
           /\ pager' = IF IsRaise(done.out) THEN pager
                       ELSE [state |-> "kept", record |-> done.out.value, clean |-> TRUE]
    /\ UNCHANGED <<words, req>>

\* MessageService.get_message_by_id
GetMessage(message_id, fault) ==
    /\ resp = NoCall
    /\ resp' = Call("get_message_by_id",
                    [message_id |-> message_id, storage_fails |-> fault],
                    GetMessageById(store, message_id, fault))
    /\ UNCHANGED <<store, words, req, pager>>

\* GET /api/message/<message_id>
GetMessageEndpoint(message_id, fault) ==
    /\ resp = NoCall
    /\ resp' = Call("get_message_endpoint",
                    [message_id |-> message_id, storage_fails |-> fault],
                    GetMessageByIdResponse(store, message_id, fault))
    /\ UNCHANGED <<store, words, req, pager>>

\* MessageService.get_session_statistics
GetStatistics(session_id, fault) ==
    /\ resp = NoCall
    /\ resp' = Call("get_session_statistics",
                    [session_id |-> session_id, storage_fails |-> fault],
                    GetSessionStatistics(store, session_id, fault))
    /\ UNCHANGED <<store, words, req, pager>>

\* GET /api/sessions/<session_id>/stats
GetStatsEndpoint(session_id, fault) ==
    /\ resp = NoCall
    /\ resp' = Call("get_session_stats_endpoint",
                    [session_id |-> session_id, storage_fails |-> fault],
                    GetSessionStatsResponse(store, session_id, fault))
    /\ UNCHANGED <<store, words, req, pager>>

\* current_app.config['API_KEYS']
API_KEYS == << <<"k", "1">>, <<"k", "3">> >>

\* a GET request to one of the routes registered with api_key_required: the
\* decorator, and the handler of the route when the decorator calls it.
\* target: the session_id or message_id of the path; args: the query string.
ProtectedGet(route, headers, target, args, ordered, fault) ==
    /\ resp = NoCall
    /\ LET auth    == ApiKeyRequired(headers, API_KEYS)
           parsed  == SearchArgs(args)
           found   == IF IsRaise(parsed) THEN parsed
                      ELSE SearchMessagesGlobally(store, parsed.value.query,
                                                  parsed.value.limit, parsed.value.offset,
                                                  ordered, fault)
           handler == CASE route = "messages" ->
                             GetMessagesResponse(store, target, args, ordered, fault)
                        [] route = "message" -> GetMessageByIdResponse(store, target, fault)
                        [] route = "stats" -> GetSessionStatsResponse(store, target, fault)
                        [] route = "search" -> SearchResponse(parsed, found)
       IN  resp' = [op      |-> "protected_get",
                    args    |-> [route |-> route, headers |-> headers, target |-> target,
                                 query |-> args, storage_fails |-> fault],
                    handled |-> "status_code" \notin DOMAIN auth,
                    out     |-> IF "status_code" \in DOMAIN auth THEN auth ELSE handler]
    /\ UNCHANGED <<store, words, req, pager>>

---------------------------------------------------------------------------
(* The content filter: every short content over a small alphabet against *)
(* several configured word lists                                          *)

FilterAlphabet == {"a", "A"}

\* every text over the alphabet up to the bound, and texts with white space
FilterContents ==
    UNION {[1..n -> FilterAlphabet] : n \in 0..MaxContentLen}
    \cup { <<" ">>, <<" ", "a">>, <<"a", " ", "A">>, <<"A", " ", " ">> }

FilterWordLists ==
    { <<>>,
      << <<"a">> >>,
      << <<"A", "a">> >>,
      << <<"a", "a">>, <<"A">> >>,
      << <<"a", " ", "A">>, <<"a", "a", "a">>, <<" ", "a">> >> }

FilterInputs == {MessageData(m1, s1, T1, content, User) : content \in FilterContents}

InitFilter == \E inappropriate_words \in FilterWordLists : InitWith({}, inappropriate_words)

NextFilter ==
    \/ \E d \in FilterInputs, fault \in BOOLEAN : ProcessMessage(d, fault, m2)
    \/ \E fault \in BOOLEAN : DeleteMessage(m1, fault)

SpecFilter == InitFilter /\ [][NextFilter]_vars

---------------------------------------------------------------------------
(* Pagination parameters *)

PaginationLimits == (-5..MaxLimitArg) \cup {100, 101, 1000}
PaginationOffsets == {-10} \cup (-1..MaxOffsetArg)
PaginationMaxLimits == (0..MaxMaxLimit) \cup {100}

NextPagination ==
    \E limit \in PaginationLimits, offset \in PaginationOffsets,
       max_limit \in PaginationMaxLimits :
        ValidatePagination(limit, offset, max_limit)

SpecPagination == Init /\ [][NextPagination]_vars

---------------------------------------------------------------------------
(* Readers of a table that already holds messages *)

T3 == <<"3">>
Ok == <<"o", "k">>

\* payloads that process_message stores: four in session s1, two of them at
\* the same instant, and one in session s2
ReadInputs ==
    { MessageData(m1, s1, T1, Hello, User),
      MessageData(m2, s1, T1, Ok, System),
      MessageData(m3, s1, T2, Hello, User),
      MessageData(m4, s2, T1, Hello, User),
      MessageData(m5, s1, T3, Ok, System) }

\* the row process_message stores for a payload
Stored(message_data) == CreateMessageFromData(message_data, m1).value

ReadSessions == {s1, s2, <<"s", "3">>, Blank}
ReadLimits == (-1..MaxLimitArg) \cup {100, 101}
ReadOffsets == -1..MaxOffsetArg
ReadSenders == {None, <<>>, User, System, Bot}

\* query strings of GET /api/messages/<session_id>
ReadQueries ==
    { <<>>, [limit |-> 2], [offset |-> 1], [limit |-> 0, offset |-> -1],
      [limit |-> 101, offset |-> 2] }
    \cup {[sender |-> sender] : sender \in ReadSenders \ {None}}
    \cup {[limit |-> 1, offset |-> 1, sender |-> sender] : sender \in ReadSenders \ {None}}

InitRead ==
    \E inputs \in SUBSET ReadInputs :
        InitWith({Stored(d) : d \in inputs}, INAPPROPRIATE_WORDS)

NextRead ==
    \/ /\ resp = NoCall
       /\ \E session_id \in ReadSessions, sender \in ReadSenders :
            \E ordered \in OrderByTimestampAsc(SessionQuery(store, session_id, sender)) :
              \E limit \in ReadLimits, offset \in ReadOffsets, fault \in BOOLEAN :
                 GetMessages(session_id, limit, offset, sender, ordered, fault)
    \/ /\ resp = NoCall
       /\ \E session_id \in ReadSessions, args \in ReadQueries :
            \E ordered \in OrderByTimestampAsc(
                              SessionQuery(store, session_id, QueryArg(args, "sender", None))) :
              \E fault \in BOOLEAN :
                 GetMessagesEndpoint(session_id, args, ordered, fault)
    \/ TakeResponse

SpecRead == InitRead /\ [][NextRead]_vars

---------------------------------------------------------------------------
(* A reader paging through a session while writers come and go *)

PagingLimits == (1..MaxLimitArg) \cup {100}

NextPaging ==
    \/ \E d \in ReadInputs, fault \in BOOLEAN : ProcessMessage(d, fault, m1)
    \/ \E id \in {m1, m3}, fault \in BOOLEAN : DeleteMessage(id, fault)
    \/ \E session_id \in {s1, s2}, limit \in PagingLimits : StartPaging(session_id, limit)
    \/ /\ pager.state = "paging"
       /\ \E ordered \in OrderByTimestampAsc(SessionQuery(store, pager.session_id, None)) :
            \E fault \in BOOLEAN : FetchPage(ordered, fault)

SpecPaging == Init /\ [][NextPaging]_vars

---------------------------------------------------------------------------
(* Searches over a table that already holds messages *)

Abc == <<"a", "b", "c">>

\* payloads that process_message stores: contents that differ in case, in one
\* letter, or hold a character that LIKE reads as a wildcard; two pairs share
\* their instant
SearchInputs ==
    { MessageData(m1, s1, T1, Abc, User),
      MessageData(m2, s2, T2, <<"A", "B", "C">>, System),
      MessageData(m3, s1, T2, <<"a", "_", "c">>, User),
      MessageData(m4, s2, T3, <<"a", "b", "d">>, User),
      MessageData(m5, s1, T1, Hello, User) }

\* queries: absent, empty, too short with and without white space around them,
\* and long enough, with and without the characters % and _
SearchTexts ==
    { None, <<>>, <<"a", "b">>, <<" ", "a", "b", " ">>, <<" ", " ", " ">>,
      Abc, <<"A", "b", "C">>, <<" ", "a", "b", "c">>, <<"b", "c", "d">>,
      <<"i", " ", "y">>, <<"a", "_", "c">>, <<"a", "b", "_">>, <<"i", "%", "y">> }

\* query strings of GET /api/messages/search/all
SearchQueries ==
    { <<>>,
      [query |-> <<"a", "b">>],
      [query |-> Abc],
      [query |-> <<"a", "_", "c">>, limit |-> <<"2">>],
      [query |-> Abc, limit |-> <<"1">>, offset |-> <<"1">>],
      [query |-> Abc, limit |-> <<"0">>, offset |-> <<"-", "1">>],
      [query |-> Abc, limit |-> <<"1", "0", "1">>, offset |-> <<" ", "2">>],
      [query |-> Abc, limit |-> <<"x">>],
      [query |-> Abc, offset |-> <<>>],
      [query |-> <<"a", "b">>, limit |-> <<"x">>] }

InitSearch ==
    \E inputs \in SUBSET SearchInputs :
        InitWith({Stored(d) : d \in inputs}, INAPPROPRIATE_WORDS)

NextSearch ==
    \/ /\ resp = NoCall
       /\ \E query \in SearchTexts :
            \E ordered \in OrderByTimestampDesc(GlobalSearchQuery(store, Str(query))) :
              \E limit \in ReadLimits, offset \in ReadOffsets, fault \in BOOLEAN :
                 SearchMessages(query, limit, offset, ordered, fault)
    \/ /\ resp = NoCall
       /\ \E args \in SearchQueries :
            \E ordered \in OrderByTimestampDesc(
                              GlobalSearchQuery(store, Str(QueryArg(args, "query", None)))) :
              \E fault \in BOOLEAN :
                 SearchEndpoint(args, ordered, fault)
    \/ TakeResponse

SpecSearch == InitSearch /\ [][NextSearch]_vars

---------------------------------------------------------------------------
(* Lookups and statistics while messages are created and deleted *)

\* the payloads of the readers, and two that share their message_id with one
\* of them: the sender of one is neither user nor system, the content of the
\* other has white space in runs and at its end
LookupInputs ==
    ReadInputs \cup
    { MessageData(m4, s1, T2, Hello, Bot),
      MessageData(m5, s2, T3, <<"h", "i", " ", " ", "y", "o", "u", " ">>, User) }

\* the messages delete_message is called for
Deletable == {m1, m3}

LookupIds == {m1, m2, m3, m4, m5, <<"m", "9">>, Blank}

NextLookup ==
    \/ \E d \in LookupInputs, fault \in BOOLEAN : ProcessMessage(d, fault, m1)
    \/ \E d \in LookupInputs, fault \in BOOLEAN : ProcessAndKeep(d, fault, m1)
    \/ \E id \in Deletable, fault \in BOOLEAN : DeleteMessage(id, fault)
    \/ /\ resp = NoCall
       /\ \E id \in LookupIds, fault \in BOOLEAN : GetMessage(id, fault)
    \/ /\ resp = NoCall
       /\ \E id \in LookupIds, fault \in BOOLEAN : GetMessageEndpoint(id, fault)
    \/ /\ resp = NoCall
       /\ \E session_id \in ReadSessions, fault \in BOOLEAN : GetStatistics(session_id, fault)
    \/ /\ resp = NoCall
       /\ \E session_id \in ReadSessions, fault \in BOOLEAN : GetStatsEndpoint(session_id, fault)
    \/ TakeResponse

SpecLookup == Init /\ [][NextLookup]_vars

---------------------------------------------------------------------------
(* Calls of process_message whose payload breaks several rules at once *)

\* three payloads that are stored, and payloads that break two or three of:
\* a required field is missing, a field is malformed, the message_id is taken,
\* the content holds a forbidden word
OrderInputs ==
    { MessageData(m1, s1, T1, Hello, User),
      MessageData(m2, s1, T2, Hello, System),
      MessageData(m3, s2, T1, Hello, User),
      MessageData(m1, s2, T2, BuySpam, User),
      MessageData(m1, s1, BadTime, Hello, User),
      MessageData(m2, s1, BadTime, BuySpam, User),
      MessageData(m3, s1, T1, BuySpam, Bot),
      MessageData(m1, None, T1, BuySpam, User),
      [message_id |-> m2, session_id |-> s1, timestamp |-> BadTime, sender |-> User] }

NextOrder ==
    \/ \E d \in OrderInputs, fault \in BOOLEAN : ProcessMessage(d, fault, m1)
    \/ \E id \in {m1, m2}, fault \in BOOLEAN : DeleteMessage(id, fault)
    \/ TakeResponse

SpecOrder == Init /\ [][NextOrder]_vars

---------------------------------------------------------------------------
(* POST /api/messages around a service that is replaced by a stub, as in     *)
(* test_create_message_service_exception                                     *)

\* MessageController.create_message when process_message ends in out
CreateMessageWith(request, out, emit_fails) ==
    /\ resp = NoCall
    /\ LET admit == CreateMessageAdmit(request)
       IN  resp' = [op     |-> "create_message_stubbed",
                    args   |-> [request |-> request, outcome |-> out,
                                emit_fails |-> emit_fails],
                    called |-> "status_code" \notin DOMAIN admit,
                    out    |-> IF "status_code" \in DOMAIN admit THEN admit
                               ELSE CreateMessageRespond(out, emit_fails)]
    /\ UNCHANGED <<store, words, req, pager>>

\* the requests of the create path, and a stub that raises each exception of
\* app/utils/exceptions.py, the base class, two built-in exceptions, or returns
NextRespond ==
    \/ /\ resp = NoCall
       /\ \E request \in CreateRequests, emit_fails \in BOOLEAN :
            \E out \in { ValidationError(None),
                         ValidationError(<<"sender">>),
                         InvalidFormatError(<<"timestamp">>),
                         InappropriateContentError(<< <<"s", "p", "a", "m">> >>),
                         DatabaseError("OperationalError"),
                         MessageNotFoundError,
                         MessageProcessingErrorKw("MessageProcessingError",
                                                  "PROCESSING_ERROR", 400, <<>>),
                         BuiltinError("TypeError"),
                         BuiltinError("KeyError"),
                         Return(ToDict(Stored(MessageData(m1, s1, T1, Hello, User)))) } :
               CreateMessageWith(request, out, emit_fails)
    \/ TakeResponse

SpecRespond == Init /\ [][NextRespond]_vars

---------------------------------------------------------------------------
(* Every operation of MessageService on one table *)

\* four payloads, two of them with the same message_id, and the reads of
\* MessageService between their creation and deletion
NextService ==
    \/ \E d \in { MessageData(m1, s1, T1, Hello, User),
                  MessageData(m2, s1, T1, Ok, System),
                  MessageData(m1, s2, T2, Ok, System),
                  MessageData(m3, s2, T2, Hello, Bot) }, fault \in BOOLEAN :
         ProcessMessage(d, fault, m1)
    \/ \E id \in {m1, m2}, fault \in BOOLEAN : DeleteMessage(id, fault)
    \/ /\ resp = NoCall
       /\ \E session_id \in {s1, s2}, sender \in {None, User} :
            \E ordered \in OrderByTimestampAsc(SessionQuery(store, session_id, sender)) :
              \E limit \in {1, 2}, offset \in {0, 1}, fault \in BOOLEAN :
                 GetMessages(session_id, limit, offset, sender, ordered, fault)
    \/ /\ resp = NoCall
       /\ \E id \in {m1, m3, m5}, fault \in BOOLEAN : GetMessage(id, fault)
    \/ /\ resp = NoCall
       /\ \E session_id \in {s1, s2}, fault \in BOOLEAN : GetStatistics(session_id, fault)
    \/ /\ resp = NoCall
       /\ \E query \in {Ok, Hello} :
            \E ordered \in OrderByTimestampDesc(GlobalSearchQuery(store, query)) :
              \E limit \in {1, 2}, offset \in {0, 1}, fault \in BOOLEAN :
                 SearchMessages(query, limit, offset, ordered, fault)
    \/ TakeResponse

SpecService == Init /\ [][NextService]_vars

---------------------------------------------------------------------------
(* get_session_statistics query by query, while other requests write *)

\* a caller enters MessageService.get_session_statistics
BeginStatistics(c, session_id) ==
    /\ req[c].pc = "idle"
    /\ req' = [req EXCEPT ![c] = [pc |-> "counting", session_id |-> session_id,
                                  counts |-> <<>>]]
    /\ UNCHANGED <<store, words, resp, pager>>

\* the next of its three count_by_session_id queries (all senders, 'user',
\* 'system'), each on the table as it is when the query runs, and after the
\* third the return. fault: the query fails in the storage layer.
CountStep(c, fault) ==
    /\ req[c].pc = "counting"
    /\ LET session_id == req[c].session_id
           counts     == req[c].counts
           sender     == << None, <<"u", "s", "e", "r">>,
                            <<"s", "y", "s", "t", "e", "m">> >>[Len(counts) + 1]
           n          == CountBySessionId(store, session_id, sender)
       IN  IF fault
           THEN /\ resp' = Call("get_session_statistics",
                                [session_id |-> session_id, storage_fails |-> TRUE],
                                DatabaseError("OperationalError"))
                /\ req' = [req EXCEPT ![c] = Idle]
           ELSE IF Len(counts) < 2
           THEN /\ req' = [req EXCEPT ![c].counts = Append(counts, n)]
                /\ resp' = resp
           ELSE /\ resp' = Call("get_session_statistics",
                                [session_id |-> session_id, storage_fails |-> FALSE],
                                Return([session_id      |-> session_id,
                                        total_messages  |-> counts[1],
                                        user_messages   |-> counts[2],
                                        system_messages |-> n]))
                /\ req' = [req EXCEPT ![c] = Idle]
    /\ UNCHANGED <<store, words, pager>>

\* one caller of get_session_statistics; the other requests create and delete
\* messages of user and system in the session
NextStats ==
    \/ \E session_id \in {s1, s2} : BeginStatistics(1, session_id)
    \/ \E fault \in BOOLEAN : CountStep(1, fault)
    \/ \E d \in { MessageData(m1, s1, T1, Hello, User),
                  MessageData(m2, s1, T1, Ok, System),
                  MessageData(m3, s1, T2, Hello, User) }, fault \in BOOLEAN :
         ProcessMessage(d, fault, m1)
    \/ \E id \in {m1, m2}, fault \in BOOLEAN : DeleteMessage(id, fault)

SpecStats == Init /\ [][NextStats]_vars

---------------------------------------------------------------------------
(* The read endpoints behind api_key_required *)

Bearer(rest) == [Authorization |-> <<"B", "e", "a", "r", "e", "r">> \o rest]

\* request headers: none, an empty Authorization, another scheme, the scheme
\* alone or in lower case, a configured key, an unknown key, a configured key
\* followed by more text, and two spaces before the key
AuthHeaders ==
    { <<>>,
      [Authorization |-> <<>>],
      [Authorization |-> <<"B", "a", "s", "i", "c", " ", "k", "1">>],
      [Authorization |-> <<"b", "e", "a", "r", "e", "r", " ", "k", "1">>],
      Bearer(<<>>),
      Bearer(<<" ">>),
      Bearer(<<" ", "k", "1">>),
      Bearer(<<" ", "k", "3">>),
      Bearer(<<" ", "k", "2">>),
      Bearer(<<" ", "k", "1", "3">>),
      Bearer(<<" ", "k", "1", " ", "x">>),
      Bearer(<<" ", " ", "k", "1">>),
      Bearer(<<"k", "1">>) }

NextAuth ==
    \/ /\ resp = NoCall
       /\ \E headers \in AuthHeaders, session_id \in {s1, s2},
             args \in {<<>>, [limit |-> 1, offset |-> 1]} :
            \E ordered \in OrderByTimestampAsc(SessionQuery(store, session_id, None)) :
              \E fault \in BOOLEAN :
                 ProtectedGet("messages", headers, session_id, args, ordered, fault)
    \/ /\ resp = NoCall
       /\ \E headers \in AuthHeaders, message_id \in {m1, m5}, fault \in BOOLEAN :
            ProtectedGet("message", headers, message_id, <<>>, <<>>, fault)
    \/ /\ resp = NoCall
       /\ \E headers \in AuthHeaders, session_id \in {s1, s2}, fault \in BOOLEAN :
            ProtectedGet("stats", headers, session_id, <<>>, <<>>, fault)
    \/ /\ resp = NoCall
       /\ \E headers \in AuthHeaders,
             args \in {<<>>, [query |-> <<"h", "i", " ">>], [query |-> Ok, limit |-> <<"x">>]} :
            \E ordered \in OrderByTimestampDesc(
                              GlobalSearchQuery(store, Str(QueryArg(args, "query", None)))) :
              \E fault \in BOOLEAN :
                 ProtectedGet("search", headers, None, args, ordered, fault)
    \/ TakeResponse

SpecAuth == InitRead /\ [][NextAuth]_vars

---------------------------------------------------------------------------
(* Claims on the create path, under Spec *)

\* the call supplies a message_id
Supplies(message_data) ==
    "message_id" \in DOMAIN message_data /\ Truthy(message_data.message_id)

\* this step is a whole call of op: it started and ended without reaching the save
EndsAtOnce(op) ==
    req' = req /\ resp'.op = op /\ (resp.op # op \/ resp' # resp)

\* this step starts a call through via that goes on to its save
GoesToSave(c, via) ==
    req[c].pc = "idle" /\ req'[c].pc = "saving" /\ req'[c].via = via

\* this step is the save that ends a call made through via
EndsAtSave(c, via) ==
    req[c].pc = "saving" /\ req[c].via = via /\ req'[c].pc = "idle"

\* C1: once a process_message call supplying message_id X has succeeded, every
\* later process_message call supplying X, with no delete of X in between (X is
\* still stored when the call starts), fails with ValidationError and leaves
\* the store unchanged.
C1_LaterCallFailsWithValidationError ==
    [][/\ (/\ EndsAtOnce("process_message")
           /\ Supplies(resp'.args)
           /\ ExistsByMessageId(store, resp'.args.message_id))
          => (store' = store /\ resp'.out.raised = "ValidationError")
       /\ \A c \in Clients :
            (GoesToSave(c, "service") /\ Supplies(req'[c].data))
            => ~ExistsByMessageId(store, req'[c].data.message_id)]_vars

\* the request carries a message_id
Carries(request) ==
    request.is_json /\ request.parses /\ Supplies(request.json)

Presentable(json) ==
    SchemaValid(json) /\ \A f \in DOMAIN json : Strip(json[f]) # <<>>

MessageIdUnique ==
    \A r1, r2 \in store : r1.message_id = r2.message_id => r1 = r2

\* the outcome of a create call is a DatabaseError (raised, or answered 500)
EndsInDatabaseError(call) ==
    IF call.op = "create_message"
    THEN call.out.status_code = 500 /\ call.out.body.error.code = "DATABASE_ERROR"
    ELSE call.out.raised = "DatabaseError"

C5_OneRecordOrNone ==
    [][/\ \A c \in Clients : GoesToSave(c, "service") => store' = store
       /\ (\/ EndsAtOnce("process_message")
           \/ \E c \in Clients : EndsAtSave(c, "service"))
          => (/\ resp'.op = "process_message"
              /\ IF IsRaise(resp'.out)
                 THEN store' = store
                 ELSE \E m \in store' \ store :
                         /\ store' = store \cup {m}
                         /\ resp'.out.value = ToDict(m))]_vars

\* a call returned the record it stored
C5_Witness ==
    /\ resp.op = "process_message"
    /\ ~IsRaise(resp.out)
    /\ \E m \in store : resp.out.value = ToDict(m)

---------------------------------------------------------------------------
(* Claims on the content filter, under SpecFilter *)

\* two characters are the same letter, whatever their case
SameLetter(a, b) ==
    a = b \/ \E i \in 1..Len(UpperCase) : {a, b} = {UpperCase[i], LowerCase[i]}

\* word occurs in content as a case-insensitive substring
OccursIgnoringCase(word, content) ==
    \E i \in 0..(Len(content) - Len(word)) :
        \A k \in 1..Len(word) : SameLetter(content[i + k], word[k])

\* the configured words that occur in content, in configuration order
Occurring(inappropriate_words, content) ==
    SelectSeq(inappropriate_words, LAMBDA word : OccursIgnoringCase(word, content))

\* the payload has every required field, none of them None or blank, a known
\* sender and a timestamp that parses
OtherwiseValid(message_data) ==
    /\ \A f \in {"message_id", "session_id", "timestamp", "content", "sender"} :
          /\ f \in DOMAIN message_data
          /\ message_data[f] # None
          /\ \E i \in 1..Len(message_data[f]) : message_data[f][i] # " "
    /\ message_data.sender \in {<<"u", "s", "e", "r">>, <<"s", "y", "s", "t", "e", "m">>}
    /\ FromIsoFormat(message_data.timestamp) # 0

---------------------------------------------------------------------------
(* Claims on pagination parameters, under SpecPagination *)

\* C6: validate_pagination_params(limit, offset, max_limit) never fails and
\* returns limit' = 10 if limit < 1, max_limit if limit > max_limit, otherwise
\* limit; offset' = 0 if offset < 0, otherwise offset; so with max_limit 100,
\* limit -5 gives 10, limit 1000 gives 100 and offset -10 gives 0.
C6_PaginationNormalised ==
    resp.op = "validate_pagination_params"
    => /\ ~IsRaise(resp.out)
       /\ resp.out.value[1] = (IF resp.args.limit < 1 THEN 10
                               ELSE IF resp.args.limit > resp.args.max_limit
                               THEN resp.args.max_limit
                               ELSE resp.args.limit)
       /\ resp.out.value[2] = (IF resp.args.offset < 0 THEN 0 ELSE resp.args.offset)
       /\ (resp.args.max_limit = 100 /\ resp.args.limit = -5) => resp.out.value[1] = 10
       /\ (resp.args.max_limit = 100 /\ resp.args.limit = 1000) => resp.out.value[1] = 100
       /\ resp.args.offset = -10 => resp.out.value[2] = 0

\* limit 1000 and offset -10 under max_limit 100 came back as (100, 0)
C6_Witness ==
    /\ resp.op = "validate_pagination_params"
    /\ resp.args = [limit |-> 1000, offset |-> -10, max_limit |-> 100]
    /\ resp.out = Return(<<100, 0>>)

---------------------------------------------------------------------------
(* Claims on the readers, under SpecRead *)

\* a sender filter is given: it is neither None nor the empty text
Given(sender) == sender # None /\ sender # <<>>

\* the stored messages that match the (session_id, sender) filter
Matching(rows, session_id, sender) ==
    {r \in rows : r.session_id = session_id /\ (Given(sender) => r.sender = sender)}

NormalLimit(limit) == IF limit < 1 THEN 10 ELSE IF limit > 100 THEN 100 ELSE limit

NormalOffset(offset) == IF offset < 0 THEN 0 ELSE offset

\* the pagination block p answers limit, offset and the filter as claimed
PaginationBlockFor(p, session_id, limit, offset, sender) ==
    /\ p.limit = NormalLimit(limit)
    /\ p.offset = NormalOffset(offset)
    /\ p.total = Cardinality(Matching(store, session_id, sender))
    /\ p.has_next = (p.offset + p.limit < p.total)
    /\ p.has_prev = (p.offset > 0)

\* C7: in every get_messages_by_session response, from the service or in the
\* 200 response of the endpoint, the pagination block reports the normalized
\* limit and offset and the total count of messages matching the (session_id,
\* sender) filter, with has_next true exactly when offset + limit < total and
\* has_prev true exactly when offset > 0, on the normalized values.
C7_PaginationBlock ==
    /\ (resp.op = "get_messages_by_session" /\ ~IsRaise(resp.out))
       => PaginationBlockFor(resp.out.value.pagination, resp.args.session_id,
                             resp.args.limit, resp.args.offset, resp.args.sender)
    /\ (resp.op = "get_messages_endpoint" /\ resp.out.status_code = 200)
       => PaginationBlockFor(resp.out.body.pagination, resp.args.session_id,
                             IF "limit" \in DOMAIN resp.args.query
                             THEN resp.args.query.limit ELSE 10,
                             IF "offset" \in DOMAIN resp.args.query
                             THEN resp.args.query.offset ELSE 0,
                             IF "sender" \in DOMAIN resp.args.query
                             THEN resp.args.query.sender ELSE None)

\* a page from the middle of a session of four messages: has_next and has_prev
C7_Witness ==
    /\ resp.op = "get_messages_by_session"
    /\ ~IsRaise(resp.out)
    /\ resp.out.value.pagination.total = 4
    /\ resp.out.value.pagination.has_next
    /\ resp.out.value.pagination.has_prev

\* the stored row a returned message was made from
RowOf(d) == CHOOSE r \in store : r.message_id = d.message_id

\* C9: get_messages_by_session returns only stored messages whose session_id is
\* the requested one and, when a sender filter is given, whose sender is the
\* given one; the messages come in ascending timestamp order; the total is the
\* number of stored messages matching that filter; a session with no messages
\* yields an empty list with total 0 and, the storage layer working and the
\* sender filter being absent or valid, no error.
C9_SessionListing ==
    /\ (resp.op = "get_messages_by_session" /\ ~IsRaise(resp.out))
       => LET messages == resp.out.value.messages
              total    == resp.out.value.pagination.total
          IN  /\ \A i \in 1..Len(messages) :
                    /\ \E r \in store : ToDict(r) = messages[i]
                    /\ messages[i].session_id = resp.args.session_id
                    /\ Given(resp.args.sender) => messages[i].sender = resp.args.sender
              /\ \A i, j \in 1..Len(messages) :
                    i < j => RowOf(messages[i]).timestamp <= RowOf(messages[j]).timestamp
              /\ total = Cardinality(Matching(store, resp.args.session_id, resp.args.sender))
              /\ Matching(store, resp.args.session_id, None) = {}
                    => (messages = <<>> /\ total = 0)
    /\ (/\ resp.op = "get_messages_by_session"
        /\ Matching(store, resp.args.session_id, None) = {}
        /\ ~resp.args.storage_fails
        /\ (Given(resp.args.sender) => resp.args.sender \in {User, System}))
       => ~IsRaise(resp.out)

\* two system messages of s1 came back in timestamp order while the table also
\* holds a user message of s1 and a message of s2
C9_Witness ==
    /\ resp.op = "get_messages_by_session"
    /\ ~IsRaise(resp.out)
    /\ resp.args.sender = System
    /\ Len(resp.out.value.messages) = 2
    /\ resp.out.value.messages[1].timestamp # resp.out.value.messages[2].timestamp
    /\ \E r \in store : r.session_id = resp.args.session_id /\ r.sender = User
    /\ \E r \in store : r.session_id # resp.args.session_id

\* the literal senders the claim names
UserOrSystem == {<<"u", "s", "e", "r">>, <<"s", "y", "s", "t", "e", "m">>}

\* C10: get_messages_by_session called with a sender filter that is given and
\* is not 'user' or 'system' fails with ValidationError, also when the storage
\* layer is failing (the store is not queried); the endpoint, for a session_id
\* that is not blank, answers it 400 with code VALIDATION_ERROR.
C10_InvalidSenderRejected ==
    /\ (/\ resp.op = "get_messages_by_session"
        /\ Given(resp.args.sender)
        /\ resp.args.sender \notin UserOrSystem)
       => (/\ resp.out.raised = "ValidationError"
           /\ resp.out.code = "VALIDATION_ERROR"
           /\ resp.out.status_code = 400)
    /\ (/\ resp.op = "get_messages_endpoint"
        /\ \E i \in 1..Len(resp.args.session_id) : resp.args.session_id[i] # " "
        /\ "sender" \in DOMAIN resp.args.query
        /\ Given(resp.args.query.sender)
        /\ resp.args.query.sender \notin UserOrSystem)
       => (/\ resp.out.status_code = 400
           /\ resp.out.body.status = "error"
           /\ resp.out.body.error.code = "VALIDATION_ERROR")

\* the endpoint refused sender 'bot' with 400 VALIDATION_ERROR over a table
\* that holds messages and a storage layer that is failing
C10_Witness ==
    /\ resp.op = "get_messages_endpoint"
    /\ "sender" \in DOMAIN resp.args.query
    /\ resp.args.query.sender = Bot
    /\ resp.args.storage_fails
    /\ store # {}
    /\ resp.out.status_code = 400
    /\ resp.out.body.error.code = "VALIDATION_ERROR"

---------------------------------------------------------------------------
(* Claims on paging, under SpecPaging *)

\* C8: for a session holding N stored messages and a fixed limit L in 1..100,
\* with no writes in between, the pages fetched at offsets 0, L, 2L, ... until
\* has_next is false have lengths that sum to N, and has_next is true on a page
\* exactly when offset + L < N.
C8_PagesSumToN ==
    (/\ pager.state \in {"paging", "done"}
     /\ pager.clean
     /\ pager.limit \in 1..100)
    => LET N == Cardinality({r \in store : r.session_id = pager.session_id})
       IN  /\ pager.pages > 0 => (pager.has_next <=> (pager.last_offset + pager.limit < N))
           /\ pager.state = "done" => pager.total_len = N

\* a session of four messages was read to its end in two pages of limit 3
C8_Witness ==
    /\ pager.state = "done"
    /\ pager.clean
    /\ pager.limit = 3
    /\ pager.pages = 2
    /\ pager.total_len = 4

---------------------------------------------------------------------------
(* Claims on the global search, under SpecSearch *)

\* the last call was search_messages_globally
Searched == resp.op = "search_messages_globally"

\* the query is absent, empty, or has fewer than 3 characters once the white
\* space around it is removed
TooShort(query) ==
    \/ query = None
    \/ Len(query) = 0
    \/ \A i, j \in 1..Len(query) :
          (query[i] # " " /\ query[j] # " ") => j - i < 2

\* C11: search_messages_globally fails with a ValidationError whose code is
\* SEARCH_QUERY_TOO_SHORT for every query that is absent, empty or shorter than
\* 3 characters after trimming, whether or not the store can be queried, and
\* raises no such error for a query of trimmed length 3 or more.
C11_ShortQueryFailsWithValidationError ==
    Searched =>
        ( TooShort(resp.args.query)
              <=> ( /\ resp.out.raised = "ValidationError"
                    /\ resp.out.code = "SEARCH_QUERY_TOO_SHORT" ) )

\* the stored messages whose content contains the query as a case-insensitive
\* substring
Containing(rows, query) == {r \in rows : OccursIgnoringCase(query, r.content)}

\* data is the window [offset, offset + limit) of a listing of rows by
\* descending timestamp
WindowMostRecentFirst(data, rows, offset, limit) ==
    LET n == Cardinality(rows)
        k == IF offset >= n THEN 0 ELSE Min(n, offset + limit) - offset
    IN  \E q \in [1..n -> rows] :
            /\ \A i, j \in 1..n : i # j => q[i] # q[j]
            /\ \A i, j \in 1..n : i < j => q[i].timestamp >= q[j].timestamp
            /\ data = [i \in 1..k |-> ToDict(q[offset + i])]

\* C12: for a valid query, search_messages_globally returns exactly the window
\* [offset, offset + limit) of all stored messages, of every session, whose
\* content contains the query as a case-insensitive substring, most recent
\* first, and total_results is the number of all stored messages that match.
C12_SearchReturnsSubstringMatches ==
    (Searched /\ ~IsRaise(resp.out)) =>
        /\ resp.out.value.pagination.total_results
              = Cardinality(Containing(store, resp.args.query))
        /\ WindowMostRecentFirst(resp.out.value.data,
                                 Containing(store, resp.args.query),
                                 NormalOffset(resp.args.offset),
                                 NormalLimit(resp.args.limit))

\* the search result answers limit and offset as claimed: both normalized, as
\* many messages as the normalized window holds of total_results, and
\* next_offset the end of the window when results remain beyond it
SearchPaginationFor(result, limit, offset) ==
    LET p == result.pagination
    IN  /\ p.limit = NormalLimit(limit) /\ p.limit \in 1..100
        /\ p.offset = NormalOffset(offset) /\ p.offset >= 0
        /\ Len(result.data) = IF p.offset >= p.total_results THEN 0
                              ELSE Min(p.total_results, p.offset + p.limit) - p.offset
        /\ p.next_offset = IF p.offset + p.limit < p.total_results
                           THEN << p.offset + p.limit >>
                           ELSE <<>>

\* C13: in every search_messages_globally response, from the service or in the
\* 200 response of the endpoint, pagination.next_offset is offset + limit on
\* the normalized values when offset + limit < total_results and null
\* otherwise; limit is normalized into 1..100 and offset to >= 0 before the
\* store is queried, so the data is the window of the normalized values.
C13_NextOffset ==
    /\ (Searched /\ ~IsRaise(resp.out))
       => SearchPaginationFor(resp.out.value, resp.args.limit, resp.args.offset)
    /\ (resp.op = "search_endpoint" /\ resp.out.status_code = 200)
       => SearchPaginationFor(resp.out.body,
                              SearchArgs(resp.args.query).value.limit,
                              SearchArgs(resp.args.query).value.offset)

\* a search asked with a negative offset and limit 2 over three matches: the
\* first two come back and next_offset is 2
C13_Witness ==
    /\ Searched
    /\ ~IsRaise(resp.out)
    /\ resp.args.offset < 0
    /\ resp.args.limit = 2
    /\ resp.out.value.pagination.total_results = 3
    /\ Len(resp.out.value.data) = 2
    /\ resp.out.value.pagination.next_offset = <<2>>

---------------------------------------------------------------------------
(* Claims on lookups and statistics, under SpecLookup *)

\* the stored messages with the given message_id
WithId(message_id) == {r \in store : r.message_id = message_id}

\* C14: get_message_by_id(message_id) returns the record view of the stored
\* message with that message_id when one exists, and fails with
\* MessageNotFoundError when no stored message has it, also after that message
\* was deleted; the endpoint, given a message_id that is not blank, answers 200
\* with the record view, or 404 with code NOT_FOUND. The storage layer works.
C14_LookupById ==
    /\ (resp.op = "get_message_by_id" /\ ~resp.args.storage_fails)
       => IF WithId(resp.args.message_id) = {}
          THEN /\ resp.out.raised = "MessageNotFoundError"
               /\ resp.out.code = "NOT_FOUND"
               /\ resp.out.status_code = 404
          ELSE /\ ~IsRaise(resp.out)
               /\ \A r \in WithId(resp.args.message_id) : resp.out.value = ToDict(r)
    /\ (/\ resp.op = "get_message_endpoint"
        /\ ~resp.args.storage_fails
        /\ \E i \in 1..Len(resp.args.message_id) : resp.args.message_id[i] # " ")
       => IF WithId(resp.args.message_id) = {}
          THEN /\ resp.out.status_code = 404
               /\ resp.out.body.status = "error"
               /\ resp.out.body.error.code = "NOT_FOUND"
          ELSE /\ resp.out.status_code = 200
               /\ \A r \in WithId(resp.args.message_id) : resp.out.body.data = ToDict(r)

\* a client was returned a record by process_message; the message was deleted
\* and the lookup of its message_id fails with MessageNotFoundError
C14_Witness ==
    /\ pager.state = "kept"
    /\ resp.op = "get_message_by_id"
    /\ ~resp.args.storage_fails
    /\ resp.args.message_id = pager.record.message_id
    /\ resp.out.raised = "MessageNotFoundError"

\* the number of whitespace-delimited tokens of content: the places where a
\* token ends
Tokens(content) ==
    Cardinality({i \in 1..Len(content) :
        /\ content[i] # " "
        /\ (i = Len(content) \/ content[i + 1] = " ")})

\* the last call looked up the message whose record the client keeps
LookedUpKept ==
    /\ pager.state = "kept"
    /\ resp.op = "get_message_by_id"
    /\ ~resp.args.storage_fails
    /\ resp.args.message_id = pager.record.message_id

\* C15: the record returned by a successful process_message has word_count
\* equal to the number of whitespace-delimited tokens of content and
\* character_count equal to the length of content; a later get_message_by_id
\* with the returned message_id returns the same message_id, session_id,
\* content, sender and metadata, whatever creates and reads happened in between
\* (delete_message is never called for that message).
C15_CountsAndRoundTrip ==
    /\ (resp.op = "process_message" /\ ~IsRaise(resp.out))
       => /\ resp.out.value.metadata.word_count = Tokens(resp.args.content)
          /\ resp.out.value.metadata.character_count = Len(resp.args.content)
    /\ (LookedUpKept /\ pager.record.message_id \notin Deletable)
       => /\ ~IsRaise(resp.out)
          /\ resp.out.value.message_id = pager.record.message_id
          /\ resp.out.value.session_id = pager.record.session_id
          /\ resp.out.value.content = pager.record.content
          /\ resp.out.value.sender = pager.record.sender
          /\ resp.out.value.metadata = pager.record.metadata

\* a client was returned the record of a content of two tokens and eight
\* characters; later writes changed the table, which now holds four messages,
\* and the lookup returns the record with word_count 2 and character_count 8
C15_Witness ==
    /\ LookedUpKept
    /\ ~pager.clean
    /\ pager.record.message_id \notin Deletable
    /\ Len(pager.record.content) = 8
    /\ ~IsRaise(resp.out)
    /\ resp.out.value.metadata = [word_count |-> 2, character_count |-> 8]
    /\ Cardinality(store) = 4

\* the stored messages of a session
OfSession(session_id) == {r \in store : r.session_id = session_id}

\* stats reports the session's stored messages: all of them, those of sender
\* 'user' and those of sender 'system'
StatisticsFor(stats, session_id) ==
    /\ stats.total_messages = Cardinality(OfSession(session_id))
    /\ stats.user_messages
          = Cardinality({r \in OfSession(session_id) : r.sender = <<"u", "s", "e", "r">>})
    /\ stats.system_messages
          = Cardinality({r \in OfSession(session_id) :
                            r.sender = <<"s", "y", "s", "t", "e", "m">>})
    /\ OfSession(session_id) = {}
          => /\ stats.total_messages = 0
             /\ stats.user_messages = 0
             /\ stats.system_messages = 0

\* C16: after any sequence of creates and deletes, get_session_statistics
\* returns total_messages equal to the number of stored messages of the
\* session, user_messages the number of those with sender 'user' and
\* system_messages the number with sender 'system'; for a session with no
\* stored messages all three are 0 and no error is raised. The same holds of
\* the data of the endpoint for a session_id that is not blank. The storage
\* layer works.
C16_SessionStatistics ==
    /\ (resp.op = "get_session_statistics" /\ ~resp.args.storage_fails)
       => /\ ~IsRaise(resp.out)
          /\ StatisticsFor(resp.out.value, resp.args.session_id)
    /\ (/\ resp.op = "get_session_stats_endpoint"
        /\ ~resp.args.storage_fails
        /\ \E i \in 1..Len(resp.args.session_id) : resp.args.session_id[i] # " ")
       => /\ resp.out.status_code = 200
          /\ StatisticsFor(resp.out.body.data, resp.args.session_id)

\* the message a client had created was deleted; its session still holds one
\* user message, one system message and one of another sender
C16_Witness ==
    /\ pager.state = "kept"
    /\ WithId(pager.record.message_id) = {}
    /\ resp.op = "get_session_statistics"
    /\ resp.args.session_id = pager.record.session_id
    /\ ~IsRaise(resp.out)
    /\ resp.out.value.total_messages = 3
    /\ resp.out.value.user_messages = 1
    /\ resp.out.value.system_messages = 1

---------------------------------------------------------------------------
(* Claims on the validation of process_message, under Spec *)

\* the required fields that are absent from the payload, None, or blank
Lacking(message_data) ==
    {f \in {"message_id", "session_id", "timestamp", "content", "sender"} :
        \/ f \notin DOMAIN message_data
        \/ message_data[f] = None
        \/ \A i \in 1..Len(message_data[f]) : message_data[f][i] = " "}

\* C17: process_message fails with ValidationError whenever a required field
\* (message_id, session_id, timestamp, content, sender) is absent from the
\* input, None, or blank after trimming; the error names every such field, and
\* the call fails before any store access: it never reaches its save and the
\* store is unchanged.
C17_MissingFieldsFailWithValidationError ==
    [][/\ (EndsAtOnce("process_message") /\ Lacking(resp'.args) # {})
          => /\ store' = store
             /\ resp'.out.raised = "ValidationError"
             /\ \A f \in Lacking(resp'.args) : InSeq(f, resp'.out.details)
       /\ \A c \in Clients :
            GoesToSave(c, "service") => Lacking(req'[c].data) = {}]_vars

\* a field of the payload is malformed: a sender that is neither user nor
\* system, a timestamp that does not parse, a content longer than 5000
\* characters, or a session_id or message_id longer than 255 characters
Malformed(message_data) ==
    \/ message_data.sender \notin UserOrSystem
    \/ FromIsoFormat(message_data.timestamp) = 0
    \/ Len(message_data.content) > MaxContentLength
    \/ Len(message_data.session_id) > MaxIdLength
    \/ Len(message_data.message_id) > MaxIdLength

\* C18: process_message called with all required fields present but with a
\* malformed field fails with InvalidFormatError and stores nothing: it never
\* reaches its save.
C18_MalformedFieldFailsWithInvalidFormatError ==
    [][/\ (/\ EndsAtOnce("process_message")
           /\ Lacking(resp'.args) = {}
           /\ Malformed(resp'.args))
          => (store' = store /\ resp'.out.raised = "InvalidFormatError")
       /\ \A c \in Clients :
            (GoesToSave(c, "service") /\ Lacking(req'[c].data) = {})
            => ~Malformed(req'[c].data)]_vars

---------------------------------------------------------------------------
(* Claims on the broadcast of the create endpoint, under Spec *)

\* C19: in every execution of the create endpoint, the 'new_message' broadcast
\* for a message is emitted only after that message has been persisted by the
\* request, carries the stored record view, is emitted at most once per create
\* request, and is never emitted for a request that was rejected or whose save
\* failed.
C19_BroadcastOnlyAfterPersistence ==
    [][/\ \A c \in Clients :
            EndsAtSave(c, "http")
            => /\ resp'.op = "create_message"
               /\ Len(resp'.emitted) <= 1
               /\ resp'.emitted # <<>>
                     => /\ req[c].message \notin store
                        /\ store' = store \cup {req[c].message}
                        /\ resp'.emitted[1] = [event |-> "new_message",
                                               data  |-> ToDict(req[c].message)]
               /\ store' = store => resp'.emitted = <<>>
       /\ EndsAtOnce("create_message")
            => (store' = store /\ resp'.emitted = <<>>)]_vars

\* a create request was answered 201 and its message, now stored, was broadcast
C19_Witness ==
    /\ resp.op = "create_message"
    /\ resp.out.status_code = 201
    /\ Len(resp.emitted) = 1
    /\ resp.emitted[1].event = "new_message"
    /\ \E r \in store : resp.emitted[1].data = ToDict(r)

\* C20: if the broadcast fails after a message has been persisted, the create
\* request still succeeds: whenever the request's save has committed, the
\* endpoint returns 201 with the stored record, and the record is in the store.
C20_CreateSucceedsWhenBroadcastFails ==
    [][\A c \in Clients :
          (EndsAtSave(c, "http") /\ store' # store)
          => /\ req[c].message \in store'
             /\ resp'.out.status_code = 201
             /\ resp'.out.body.data = ToDict(req[c].message)]_vars

---------------------------------------------------------------------------
(* Claims on storage failures and the order of the checks, under Spec *)

\* C21: when the storage layer fails during save, save rolls the transaction
\* back and raises DatabaseError: the store holds exactly the records it held
\* before the call, and process_message propagates that DatabaseError (code
\* DATABASE_ERROR, status 500) to its caller; a save that does not fail stores
\* the message.
C21_SaveFailureRollsBack ==
    [][\A c \in Clients :
          EndsAtSave(c, "service")
          => /\ resp'.op = "process_message"
             /\ IF req[c].message \in store' /\ req[c].message \notin store
                THEN ~IsRaise(resp'.out)
                ELSE /\ store' = store
                     /\ resp'.out.raised = "DatabaseError"
                     /\ resp'.out.code = "DATABASE_ERROR"
                     /\ resp'.out.status_code = 500]_vars

\* the storage layer failed while a message whose message_id is not stored was
\* saved: the call ended in DatabaseError and the store holds what it held
C21_Witness ==
    /\ resp.op = "process_message"
    /\ resp.out.raised = "DatabaseError"
    /\ resp.out.details = <<"OperationalError">>
    /\ Supplies(resp.args)
    /\ ~ExistsByMessageId(store, resp.args.message_id)
    /\ store # {}

---------------------------------------------------------------------------
(* Claims on the read endpoints behind api_key_required, under SpecAuth *)

\* the request carries an Authorization header that starts with 'Bearer '
IsBearer(headers) ==
    /\ "Authorization" \in DOMAIN headers
    /\ Len(headers["Authorization"]) >= 7
    /\ \A i \in 1..7 : headers["Authorization"][i] = <<"B", "e", "a", "r", "e", "r", " ">>[i]

\* the key of a Bearer header: the text after 'Bearer ' up to the next space
BearerKey(headers) ==
    LET h    == headers["Authorization"]
        stop == IF \E i \in 8..Len(h) : h[i] = " "
                THEN CHOOSE i \in 8..Len(h) : h[i] = " " /\ \A j \in 8..(i - 1) : h[j] # " "
                ELSE Len(h) + 1
    IN  SubSeq(h, 8, stop - 1)

---------------------------------------------------------------------------
(* Claims on deletion and on what the stored records are, under SpecLookup *)

\* C23: delete_by_message_id(message_id), as delete_message calls it with the
\* storage layer working, returns True and removes exactly the record with
\* that message_id when it exists, after which exists_by_message_id and
\* find_by_message_id report it absent; it returns False and leaves the table
\* unchanged when no such record exists; all other records are untouched in
\* both cases. When the storage layer fails it raises DatabaseError and the
\* table is unchanged.
C23_DeleteRemovesExactlyThatRecord ==
    [][resp'.op = "delete_message" =>
         LET id    == resp'.args.message_id
             there == {r \in store : r.message_id = id}
         IN  /\ (~resp'.args.storage_fails /\ there # {})
                   => /\ resp'.out = Return(TRUE)
                      /\ store' = store \ there
                      /\ Cardinality(there) = 1
                      /\ ~ExistsByMessageId(store', id)
                      /\ FindByMessageId(store', id) = NoMessage
             /\ (~resp'.args.storage_fails /\ there = {})
                   => /\ resp'.out = Return(FALSE)
                      /\ store' = store
             /\ resp'.args.storage_fails
                   => /\ resp'.out = DatabaseError("OperationalError")
                      /\ store' = store
             /\ \A r \in store : r.message_id # id => r \in store']_vars

\* m1 was deleted from a table that holds another message of its session
C23_Witness ==
    /\ resp.op = "delete_message"
    /\ resp.args.message_id = m1
    /\ resp.out = Return(TRUE)
    /\ \A r \in store : r.message_id # m1
    /\ \E r \in store : r.session_id = s1

---------------------------------------------------------------------------
(* Claims on the order of the checks of process_message, under SpecOrder *)

\* C24: process_message applies its checks in a fixed order: required-field and
\* per-field validation, then the duplicate message_id check, then the content
\* filter, then record construction and save. For an input that violates
\* several rules the reported error is the one of the earliest failing step (a
\* taken message_id with a forbidden word fails with the duplicate-id
\* ValidationError, not InappropriateContentError), and no later step runs.
C24_ErrorOfEarliestFailingStep ==
    [][resp'.op = "process_message" =>
         LET d == resp'.args
         IN  IF Lacking(d) # {}
             THEN store' = store /\ resp'.out.raised = "ValidationError"
             ELSE IF Malformed(d)
             THEN store' = store /\ resp'.out.raised = "InvalidFormatError"
             ELSE IF ExistsByMessageId(store, d.message_id)
             THEN store' = store /\ resp'.out.raised = "ValidationError"
             ELSE IF Occurring(words, d.content) # <<>>
             THEN store' = store /\ resp'.out.raised = "InappropriateContentError"
             ELSE \/ store' = store /\ resp'.out.raised = "DatabaseError"
                  \/ store' # store /\ ~IsRaise(resp'.out)]_vars

---------------------------------------------------------------------------
(* Claims on the responses of POST /api/messages, under SpecRespond *)

\* the response is an error response with this status and code
Answers(response, status_code, code) ==
    /\ response.status_code = status_code
    /\ response.body.status = "error"
    /\ response.body.error.code = code

\* C25: the create endpoint maps every failure of the service to a structured
\* error response with a fixed status and code and never lets an exception
\* escape: ValidationError gives 400 VALIDATION_ERROR, InvalidFormatError 400
\* INVALID_FORMAT, InappropriateContentError 400 INAPPROPRIATE_CONTENT,
\* DatabaseError 500 DATABASE_ERROR, and any other exception (including a bare
\* MessageProcessingError) 500 INTERNAL_ERROR; requests that are not JSON, have
\* an empty payload, or fail schema validation are answered 400
\* (INVALID_CONTENT_TYPE, EMPTY_PAYLOAD, SCHEMA_VALIDATION_ERROR) without
\* invoking the service.
C25_CreateMapsFailures ==
    resp.op = "create_message_stubbed" =>
        LET request == resp.args.request
            raised  == resp.args.outcome.raised
            passes  == /\ request.is_json /\ request.parses
                       /\ DOMAIN request.json # {}
                       /\ \A f \in {"message_id", "session_id", "content",
                                    "sender", "timestamp"} : f \in DOMAIN request.json
                       /\ request.json.sender \in UserOrSystem
        IN  /\ resp.out.status_code \in {201, 400, 500}
            /\ resp.out.body.status = "success" <=> resp.out.status_code = 201
            /\ resp.called <=> passes
            /\ ~request.is_json => Answers(resp.out, 400, "INVALID_CONTENT_TYPE")
            /\ (request.is_json /\ request.parses /\ DOMAIN request.json = {})
                  => Answers(resp.out, 400, "EMPTY_PAYLOAD")
            /\ (request.is_json /\ request.parses /\ DOMAIN request.json # {} /\ ~passes)
                  => Answers(resp.out, 400, "SCHEMA_VALIDATION_ERROR")
            /\ (passes /\ raised # "")
                  => CASE raised = "ValidationError" ->
                            Answers(resp.out, 400, "VALIDATION_ERROR")
                       [] raised = "InvalidFormatError" ->
                            Answers(resp.out, 400, "INVALID_FORMAT")
                       [] raised = "InappropriateContentError" ->
                            Answers(resp.out, 400, "INAPPROPRIATE_CONTENT")
                       [] raised = "DatabaseError" ->
                            Answers(resp.out, 500, "DATABASE_ERROR")
                       [] OTHER -> Answers(resp.out, 500, "INTERNAL_ERROR")

\* a payload that passes the schema reached a service that raised a bare
\* MessageProcessingError, whose own status is 400, and was answered 500
C25_Witness ==
    /\ resp.op = "create_message_stubbed"
    /\ resp.called
    /\ resp.args.outcome.raised = "MessageProcessingError"
    /\ resp.args.outcome.status_code = 400
    /\ Answers(resp.out, 500, "INTERNAL_ERROR")

---------------------------------------------------------------------------
(* Claims on what the table holds, under SpecLookup *)

\* C26: in every reachable state, after any sequence of process_message calls
\* made directly on MessageService, every stored record has sender in
\* {'user','system'}, content that is non-blank after trimming with length
\* between 1 and 5000, and session_id and message_id of length between 1 and 255.
C26_StoredRecordsAreValid ==
    \A r \in store :
        /\ r.sender \in UserOrSystem
        /\ \E i \in 1..Len(r.content) : r.content[i] # " "
        /\ Len(r.content) >= 1 /\ Len(r.content) <= MaxContentLength
        /\ Len(r.session_id) >= 1 /\ Len(r.session_id) <= MaxIdLength
        /\ Len(r.message_id) >= 1 /\ Len(r.message_id) <= MaxIdLength

---------------------------------------------------------------------------
(* Claims on the life of a stored record, under SpecService *)

\* C27: once a record is stored, no operation of the service (process_message,
\* get_messages_by_session, get_message_by_id, get_session_statistics,
\* search_messages_globally) changes any of its fields or removes it: the
\* record stays in the table with its original content, sender, timestamp,
\* word_count and character_count until delete_message is called with its
\* message_id.
C27_StoredRecordStaysAsItIs ==
    [][\A r \in store :
          \/ /\ r \in store'
             /\ \A q \in store' : q.message_id = r.message_id => q = r
          \/ /\ resp'.op = "delete_message"
             /\ resp'.args.message_id = r.message_id]_vars

\* m1 is stored in session s1; a process_message call that carries m1 with
\* another session, content, sender and timestamp has ended, and the record is
\* as it was
C27_Witness ==
    /\ resp.op = "process_message"
    /\ resp.args = MessageData(m1, s2, T2, Ok, System)
    /\ IsRaise(resp.out)
    /\ \E r \in store : /\ r.message_id = m1
                        /\ r.session_id = s1
                        /\ r.content = Hello
                        /\ r.sender = User

---------------------------------------------------------------------------
(* Claims on statistics taken while the session changes, under SpecStats *)

\* C28: every get_session_statistics response satisfies total_messages =
\* user_messages + system_messages, also when create or delete operations on
\* the same session by other requests interleave with the three separate count
\* queries the operation issues.
C28_TotalIsUserPlusSystem ==
    (resp.op = "get_session_statistics" /\ ~IsRaise(resp.out))
        => resp.out.value.total_messages
              = resp.out.value.user_messages + resp.out.value.system_messages

---------------------------------------------------------------------------
(* Claims on paging through messages of equal timestamp, under SpecPaging *)

\* C29: for a session whose contents do not change during paging, the pages
\* returned by get_messages_by_session with a fixed limit L at offsets 0, L,
\* 2L, ... together contain every message of the session exactly once (no
\* message repeated on two pages, none skipped), also when several messages of
\* the session carry the same timestamp.
C29_PagesHoldEveryMessageOnce ==
    (pager.state = "done" /\ pager.clean)
        => \A r \in store :
              r.session_id = pager.session_id
              => Cardinality({i \in 1..Len(pager.seen) : pager.seen[i] = r.message_id}) = 1

---------------------------------------------------------------------------
(* Claims on the range of the normalised pagination, under SpecPagination *)

\* C30: for every integer limit and offset and every max_limit >= 1, the pair
\* returned by validate_pagination_params satisfies 1 <= limit' <= max_limit
\* and offset' >= 0, and applying validate_pagination_params again to the
\* returned pair returns it unchanged.
C30_PaginationInRangeAndIdempotent ==
    (resp.op = "validate_pagination_params" /\ resp.args.max_limit >= 1)
        => /\ 1 <= resp.out.value[1]
           /\ resp.out.value[1] <= resp.args.max_limit
           /\ resp.out.value[2] >= 0
           /\ ValidatePaginationParams(resp.out.value[1], resp.out.value[2],
                                       resp.args.max_limit) = resp.out.value

====
